---- MODULE Spec2Model ----
(***************************************************************************)
(* Model of the LousaRDP geometry pipeline (src/app):                      *)
(*   rdp.py      Ramer-Douglas-Peucker simplification                      *)
(*   strokes.py  stroke preprocessing (dedup, closure, resampling)         *)
(*   fit.py      line / circle / rectangle fitting and classification      *)
(*                                                                         *)
(* Points are tuples <<x, y>> of integers.  The Python code works on       *)
(* floats; here every comparison of a distance is carried out exactly on   *)
(* the squares (a distance is kept as the pair n, d standing for           *)
(* sqrt(n / d)).  On integer coordinates of the size used here the float   *)
(* comparisons of the code decide the same way.                            *)
(***************************************************************************)
EXTENDS Integers, Sequences, FiniteSets, TLC

VARIABLES
    pc,              \* position of the driver: which call has been made
    points,          \* input point list of the call under study
    epsilon,         \* rdp tolerance of the first call
    simplified,      \* rdp(points, epsilon)
    again,           \* rdp(simplified, epsilon)
    epsilon2,        \* a second, larger tolerance
    simplified2,     \* rdp(points, epsilon2)
    close_threshold, \* preprocess_points_for_rdp argument
    target_spacing,  \* preprocess_points_for_rdp / resample_by_arc_length argument
    processed,       \* processed points returned by the preprocessor
    is_closed,       \* closure flag returned by the preprocessor
    resampled,       \* resample_by_arc_length(points, target_spacing)
    shape_type,      \* classify_shape: the shape chosen
    shape_info,      \* classify_shape: parameters of the accepted candidates
    norm_scores,     \* classify_shape: normalized score of the accepted candidates
    shape_obj,       \* the shape built by create_shape_from_classification
    shape_before,    \* the shape as it was before the latest move
    delta,           \* (dx, dy) of the latest move
    pos,             \* argument of the latest contains_point
    hit,             \* result of the latest contains_point
    mode_text,       \* main loop: "MODO: desenho" or "MODO: seleção"
    epsilon_value,   \* main loop: rdp tolerance
    strokes,         \* main loop: finalized strokes
    shapes,          \* main loop: canonical shapes
    redo_stack,      \* main loop: undone (stroke, shape) pairs
    current_stroke,  \* main loop: stroke being drawn
    selected_shape,  \* main loop: id of the selected shape, 0 for None
    last_mouse_pos,  \* main loop: last pointer position of a selection drag
    stroke_color,    \* main loop: colour of the next stroke
    next_id,         \* main loop: identity of the next Stroke object
    running          \* main loop: "running", or the exception that ended it

vars == <<pc, points, epsilon, simplified, again, epsilon2, simplified2,
          close_threshold, target_spacing, processed, is_closed, resampled,
          shape_type, shape_info, norm_scores,
          shape_obj, shape_before, delta, pos, hit,
          mode_text, epsilon_value, strokes, shapes, redo_stack,
          current_stroke, selected_shape, last_mouse_pos, stroke_color,
          next_id, running>>

rdpVars == <<epsilon, simplified, again, epsilon2, simplified2>>
preVars == <<close_threshold, target_spacing, processed, is_closed, resampled>>
fitVars == <<shape_type, shape_info, norm_scores>>
shapeVars == <<shape_obj, shape_before, delta, pos, hit>>
appVars == <<mode_text, epsilon_value, strokes, shapes, redo_stack,
             current_stroke, selected_shape, last_mouse_pos, stroke_color,
          next_id, running>>

----------------------------------------------------------------------------
(* Bounds of the explored input space *)

MaxX == 2
MaxLen == 4
MaxEps == 2
MaxThreshold == 2
MaxSpacing == 3

\* Two rows of pixels, MaxX + 1 columns.
Grid == (0..MaxX) \X {0, 1}

RECURSIVE SeqsUpTo(_, _)
SeqsUpTo(S, n) ==
    IF n = 0 THEN {<<>>}
    ELSE LET shorter == SeqsUpTo(S, n - 1)
         IN shorter \cup {Append(s, e) : s \in {t \in shorter : Len(t) = n - 1}, e \in S}

Epsilons == (-1)..MaxEps

----------------------------------------------------------------------------
(* rdp.py *)

Abs(a) == IF a < 0 THEN -a ELSE a

\* A distance sqrt(n / d), n >= 0, d > 0.
Zero == [n |-> 0, d |-> 1]

\* a > b for two distances
Greater(a, b) == a.n * b.d > b.n * a.d

\* Faulty variant of GreaterThan: the comparison is inverted.
GreaterThan_inverted(a, e) == IF e < 0 THEN TRUE ELSE a.n < e * e * a.d

\* a > e for a distance a and a number e
GreaterThan(a, e) == IF e < 0 THEN TRUE ELSE a.n > e * e * a.d

\* a <= e for a distance a and a number e
AtMost(a, e) == ~GreaterThan(a, e)

hypot(dx, dy) == [n |-> dx * dx + dy * dy, d |-> 1]

perpendicular_distance(point, start, end) ==
    LET x0 == point[1]
        y0 == point[2]
        x1 == start[1]
        y1 == start[2]
        x2 == end[1]
        y2 == end[2]
        dx == x2 - x1
        dy == y2 - y1
    IN IF dx = 0 /\ dy = 0
       THEN hypot(x0 - x1, y0 - y1)
       ELSE LET numerator == Abs(dy * x0 - dx * y0 + x2 * y1 - y2 * x1)
            IN [n |-> numerator * numerator, d |-> dx * dx + dy * dy]

\* The loop `for i in range(1, len(points) - 1)` of rdp; i is the Python
\* (0-based) index, best = [max_distance, index_of_max].
RECURSIVE FarthestScan(_, _, _)
FarthestScan(pts, i, best) ==
    IF i >= Len(pts) - 1 THEN best
    ELSE LET d == perpendicular_distance(pts[i + 1], pts[1], pts[Len(pts)])
         IN IF Greater(d, best.max_distance)
            THEN FarthestScan(pts, i + 1, [max_distance |-> d, index_of_max |-> i])
            ELSE FarthestScan(pts, i + 1, best)

Farthest(pts) == FarthestScan(pts, 1, [max_distance |-> Zero, index_of_max |-> -1])

\* Faulty variant of rdp: the right part starts after the split point, which is lost.
RECURSIVE rdp_drops_split(_, _)
rdp_drops_split(pts, eps) ==
    IF pts = <<>> THEN <<>>
    ELSE IF Len(pts) < 3 THEN pts
    ELSE IF eps <= 0 THEN pts
    ELSE LET far == Farthest(pts)
         IN IF GreaterThan(far.max_distance, eps) /\ far.index_of_max # -1
            THEN LET left == rdp_drops_split(SubSeq(pts, 1, far.index_of_max + 1), eps)
                     right == rdp_drops_split(SubSeq(pts, far.index_of_max + 2, Len(pts)), eps)
                 IN SubSeq(left, 1, Len(left) - 1) \o right
            ELSE <<pts[1], pts[Len(pts)]>>

\* Faulty variant of rdp: the junction point is kept by both halves.
RECURSIVE rdp_repeats_split(_, _)
rdp_repeats_split(pts, eps) ==
    IF pts = <<>> THEN <<>>
    ELSE IF Len(pts) < 3 THEN pts
    ELSE IF eps <= 0 THEN pts
    ELSE LET far == Farthest(pts)
         IN IF GreaterThan(far.max_distance, eps) /\ far.index_of_max # -1
            THEN rdp_repeats_split(SubSeq(pts, 1, far.index_of_max + 1), eps)
                 \o rdp_repeats_split(SubSeq(pts, far.index_of_max + 1, Len(pts)), eps)
            ELSE <<pts[1], pts[Len(pts)]>>

\* Faulty variant of rdp: only a negative epsilon disables the simplification.
RECURSIVE rdp_zero_simplifies(_, _)
rdp_zero_simplifies(pts, eps) ==
    IF pts = <<>> THEN <<>>
    ELSE IF Len(pts) < 3 THEN pts
    ELSE IF eps < 0 THEN pts
    ELSE LET far == Farthest(pts)
         IN IF GreaterThan(far.max_distance, eps) /\ far.index_of_max # -1
            THEN LET left == rdp_zero_simplifies(SubSeq(pts, 1, far.index_of_max + 1), eps)
                     right == rdp_zero_simplifies(SubSeq(pts, far.index_of_max + 1, Len(pts)), eps)
                 IN SubSeq(left, 1, Len(left) - 1) \o right
            ELSE <<pts[1], pts[Len(pts)]>>

RECURSIVE rdp(_, _)
rdp(pts, eps) ==
    IF pts = <<>> THEN <<>>
    ELSE IF Len(pts) < 3 THEN pts
    ELSE IF eps <= 0 THEN pts
    ELSE LET start == pts[1]
             end == pts[Len(pts)]
             far == Farthest(pts)
         IN IF GreaterThan(far.max_distance, eps) /\ far.index_of_max # -1
            THEN LET left == rdp(SubSeq(pts, 1, far.index_of_max + 1), eps)
                     right == rdp(SubSeq(pts, far.index_of_max + 1, Len(pts)), eps)
                 IN SubSeq(left, 1, Len(left) - 1) \o right
            ELSE <<start, end>>

----------------------------------------------------------------------------
(* strokes.py *)

RECURSIVE remove_consecutive_duplicates_xy(_)
remove_consecutive_duplicates_xy(pts) ==
    IF pts = <<>> THEN <<>>
    ELSE IF Len(pts) = 1 THEN pts
    ELSE LET result == remove_consecutive_duplicates_xy(SubSeq(pts, 1, Len(pts) - 1))
             p == pts[Len(pts)]
         IN IF p # result[Len(result)] THEN Append(result, p) ELSE result

\* Faulty variant of is_path_closed: the guard on the number of points lets
\* every non-empty path through.
is_path_closed_any_length(pts, threshold) ==
    IF Len(pts) < 1 THEN FALSE
    ELSE LET dist == hypot(pts[Len(pts)][1] - pts[1][1], pts[Len(pts)][2] - pts[1][2])
         IN AtMost(dist, threshold)

is_path_closed(pts, threshold) ==
    IF Len(pts) < 3 THEN FALSE
    ELSE LET dist == hypot(pts[Len(pts)][1] - pts[1][1], pts[Len(pts)][2] - pts[1][2])
         IN AtMost(dist, threshold)

\* Largest k with k * k <= n (Newton iteration from above).
RECURSIVE NewtonSqrt(_, _)
NewtonSqrt(n, x) ==
    LET y == (x + n \div x) \div 2
    IN IF y >= x THEN x ELSE NewtonSqrt(n, y)

ISqrt(n) == IF n < 2 THEN n ELSE NewtonSqrt(n, IF n > 46340 THEN 46341 ELSE n)

\* math.hypot as a number: the inputs of the resampler are restricted to
\* polylines whose segments have integer length (see Measurable).
seg_len(p, q) ==
    ISqrt((q[1] - p[1]) * (q[1] - p[1]) + (q[2] - p[2]) * (q[2] - p[2]))

\* cumulative[j + 1] is the arc length from points[0] to points[j].
RECURSIVE Cumulative(_)
Cumulative(pts) ==
    IF Len(pts) = 1 THEN <<0>>
    ELSE LET before == Cumulative(SubSeq(pts, 1, Len(pts) - 1))
         IN Append(before, before[Len(before)] + seg_len(pts[Len(pts) - 1], pts[Len(pts)]))

\* Faulty variant of TargetDistances: the end of the polyline is not appended.
TargetDistances_no_end(total_length, spacing) ==
    [i \in 1..(total_length \div spacing) |-> (i - 1) * spacing]

\* target_distances of resample_by_arc_length
TargetDistances(total_length, spacing) ==
    LET num_samples == total_length \div spacing
        regular == [i \in 1..num_samples |-> (i - 1) * spacing]
    IN IF regular[num_samples] < total_length
       THEN Append(regular, total_length)
       ELSE regular

\* `while j < len(points) and cumulative[j] < td: j += 1` (j is 0-based)
RECURSIVE Advance(_, _, _)
Advance(cumulative, j, td) ==
    IF j < Len(cumulative) /\ cumulative[j + 1] < td
    THEN Advance(cumulative, j + 1, td)
    ELSE j

\* x0 + alpha * (x1 - x0) with alpha = (td - d0) / (d1 - d0); the quotient is
\* exact on the inputs of this model.
Interpolate(a, b, td, d0, d1) == a + ((td - d0) * (b - a)) \div (d1 - d0)

\* The loop `for td in target_distances`, from the k-th target on, with the
\* segment index j it has reached.
RECURSIVE SampleFrom(_, _, _, _, _)
SampleFrom(pts, cumulative, targets, k, j) ==
    IF k > Len(targets) THEN <<>>
    ELSE LET td == targets[k]
             jj == Advance(cumulative, j, td)
         IN IF jj = Len(pts)
            THEN <<pts[Len(pts)]>> \o SampleFrom(pts, cumulative, targets, k + 1, jj)
            ELSE LET p0 == pts[jj]
                     p1 == pts[jj + 1]
                     d0 == cumulative[jj]
                     d1 == cumulative[jj + 1]
                     sample == IF d1 = d0 THEN p0
                               ELSE <<Interpolate(p0[1], p1[1], td, d0, d1),
                                      Interpolate(p0[2], p1[2], td, d0, d1)>>
                 IN <<sample>> \o SampleFrom(pts, cumulative, targets, k + 1, jj)

resample_by_arc_length(pts, spacing) ==
    IF pts = <<>> THEN <<>>
    ELSE IF Len(pts) < 2 THEN pts
    ELSE IF spacing <= 0 THEN pts
    ELSE LET cumulative == Cumulative(pts)
             total_length == cumulative[Len(cumulative)]
         IN IF total_length = 0 THEN <<pts[1]>>
            ELSE IF total_length \div spacing < 1 THEN pts
            ELSE SampleFrom(pts, cumulative, TargetDistances(total_length, spacing), 1, 1)

\* Step 2 of the preprocessor: the deduplicated list, explicitly closed
CloseLoop(cleaned, closed) ==
    IF closed /\ cleaned[1] # cleaned[Len(cleaned)]
    THEN Append(cleaned, cleaned[1])
    ELSE cleaned

\* Step 5 of the preprocessor: reinforce the closure after resampling
ReinforceClosure(resampledPts, closed, threshold) ==
    IF closed /\ Len(resampledPts) >= 2
    THEN LET first == resampledPts[1]
             last == resampledPts[Len(resampledPts)]
             dist == hypot(last[1] - first[1], last[2] - first[2])
         IN IF GreaterThan(dist, threshold)
            THEN Append(resampledPts, first)
            ELSE resampledPts
    ELSE resampledPts

\* Faulty variant of preprocess_points_for_rdp: the flag returned only says that a
\* loop could have been tested (3 points or more remain).
preprocess_flags_every_path(points_xy, threshold, spacing) ==
    LET cleaned == remove_consecutive_duplicates_xy(points_xy)
    IN IF cleaned = <<>>
       THEN [processed |-> <<>>, closed |-> FALSE]
       ELSE LET closed == is_path_closed(cleaned, threshold)
                looped == CloseLoop(cleaned, closed)
                resamp == resample_by_arc_length(looped, spacing)
            IN [processed |-> ReinforceClosure(resamp, closed, threshold),
                closed |-> Len(cleaned) >= 3]

preprocess_points_for_rdp(points_xy, threshold, spacing) ==
    LET cleaned == remove_consecutive_duplicates_xy(points_xy)
    IN IF cleaned = <<>>
       THEN [processed |-> <<>>, closed |-> FALSE]
       ELSE LET closed == is_path_closed(cleaned, threshold)
                looped == CloseLoop(cleaned, closed)
                resamp == resample_by_arc_length(looped, spacing)
            IN [processed |-> ReinforceClosure(resamp, closed, threshold),
                closed |-> closed]

\* main.py, pointer-up: the list handed to rdp and the simplified points
rdp_input(xy_points, processed_xy) ==
    IF Len(processed_xy) >= 2 THEN processed_xy ELSE xy_points

simplify_stroke(xy_points, processed_xy, eps) ==
    LET input == rdp_input(xy_points, processed_xy)
    IN IF Len(input) >= 2 THEN rdp(input, eps) ELSE input

----------------------------------------------------------------------------
(* fit.py                                                                  *)
(*                                                                         *)
(* Tests that the code makes on rational quantities are made exactly.      *)
(* Quantities that go through a square root (errors, radius, cosines,      *)
(* scores) are carried in fixed point: the integer floor(v * Scale) stands *)
(* for the real v.  The circle sums stay within 32 bits for points whose   *)
(* coordinates are at most about 10 in absolute value.                     *)

Scale == 10 * 10 * 10

\* floor(a * Scale / c) and floor(a * Scale * Scale / c) for a >= 0, c > 0,
\* by long division (the products would not fit otherwise).
ScaleDiv(a, c) == (a \div c) * Scale + ((a % c) * Scale) \div c

ScaleDiv2(a, c) ==
    (a \div c) * Scale * Scale
    + (((a % c) * Scale) \div c) * Scale
    + ((((a % c) * Scale) % c) * Scale) \div c

\* a / c in fixed point for any sign, rounded towards zero.
Quotient(a, c) ==
    LET neg == (a < 0) # (c < 0)
        q == ScaleDiv(Abs(a), Abs(c))
    IN IF neg THEN -q ELSE q

Quotient2(a, c) ==
    LET neg == (a < 0) # (c < 0)
        q == ScaleDiv2(Abs(a), Abs(c))
    IN IF neg THEN -q ELSE q

RECURSIVE SeqSum(_)
SeqSum(sq) == IF sq = <<>> THEN 0 ELSE sq[1] + SeqSum(Tail(sq))

perpendicular_distance_point_to_line(point, line_start, line_end) ==
    perpendicular_distance(point, line_start, line_end)

\* float("inf")
Infinity == [inf |-> TRUE, n |-> 0, d |-> 1]

\* Faulty variant of line_fit_rms: the sum of squares is not divided by the
\* number of points.
line_fit_rms_not_averaged(pts, line_start, line_end) ==
    IF pts = <<>> THEN Infinity
    ELSE IF line_start = line_end THEN Infinity
    ELSE LET dists == [i \in 1..Len(pts) |->
                         perpendicular_distance_point_to_line(pts[i], line_start, line_end)]
             acc == SeqSum([i \in 1..Len(pts) |-> dists[i].n])
         IN [inf |-> FALSE, n |-> acc, d |-> dists[1].d]

\* The mean of the squared distances, n / d; the RMS error is its root.
line_fit_rms(pts, line_start, line_end) ==
    IF pts = <<>> THEN Infinity
    ELSE IF line_start = line_end THEN Infinity
    ELSE LET dists == [i \in 1..Len(pts) |->
                         perpendicular_distance_point_to_line(pts[i], line_start, line_end)]
             acc == SeqSum([i \in 1..Len(pts) |-> dists[i].n])
         IN [inf |-> FALSE, n |-> acc, d |-> Len(pts) * dists[1].d]

\* line_error < 3.0
LineErrorBelow(err, tol) == ~err.inf /\ err.n < tol * tol * err.d

\* line_error in fixed point
LineError(err) == ISqrt(ScaleDiv2(err.n, err.d))

Det3(m) ==
    m[1][1] * (m[2][2] * m[3][3] - m[2][3] * m[3][2])
    - m[1][2] * (m[2][1] * m[3][3] - m[2][3] * m[3][1])
    + m[1][3] * (m[2][1] * m[3][2] - m[2][2] * m[3][1])

ReplaceColumn(m, k, b) ==
    [i \in 1..3 |-> [j \in 1..3 |-> IF j = k THEN b[i] ELSE m[i][j]]]

NoSolution == [ok |-> FALSE, num |-> <<0, 0, 0>>, den |-> 1]

\* Gaussian elimination without pivoting.  The three pivots are a11,
\* (a11 a22 - a21 a12) / a11 and det(A) / (a11 a22 - a21 a12); when none is
\* zero the solution is the one of Cramer's rule, x_k = num[k] / den.
solve_3x3(A, b) ==
    IF A[1][1] = 0 THEN NoSolution
    ELSE IF A[1][1] * A[2][2] - A[2][1] * A[1][2] = 0 THEN NoSolution
    ELSE IF Det3(A) = 0 THEN NoSolution
    ELSE [ok |-> TRUE,
          num |-> [k \in 1..3 |-> Det3(ReplaceColumn(A, k, b))],
          den |-> Det3(A)]

NoCircle == [ok |-> FALSE, cx |-> 0, cy |-> 0, r |-> 0, rms |-> 0]

\* The radial RMS error around the centre (cx, cy) for the radius r; cx, cy,
\* r and rms are in fixed point.
RadialError(pts, cx, cy, r) ==
    LET n == Len(pts)
        ri == [i \in 1..n |->
                 ISqrt((pts[i][1] * Scale - cx) * (pts[i][1] * Scale - cx)
                       + (pts[i][2] * Scale - cy) * (pts[i][2] * Scale - cy))]
        acc == SeqSum([i \in 1..n |-> (ri[i] - r) * (ri[i] - r)])
    IN [ok |-> TRUE, cx |-> cx, cy |-> cy, r |-> r, rms |-> ISqrt(acc \div n)]

\* From the parameters A, B, C of the fitted conic to centre and radius.
CircleOfRadiusSq(pts, cx, cy, r_sq) ==
    IF r_sq <= 0 THEN NoCircle ELSE RadialError(pts, cx, cy, ISqrt(r_sq))

CircleOfCentre(pts, cx, cy, C) ==
    CircleOfRadiusSq(pts, cx, cy, cx * cx + cy * cy - C)

CircleOfSolution(pts, sol) ==
    IF ~sol.ok THEN NoCircle
    ELSE CircleOfCentre(pts,
                        Quotient(-sol.num[1], 2 * sol.den),
                        Quotient(-sol.num[2], 2 * sol.den),
                        Quotient2(sol.num[3], sol.den))

\* The normal equations M * [A, B, C] = v of the fit
NormalEquations(X, Y, Z) ==
    LET n == Len(X)
        sum_x == SeqSum(X)
        sum_y == SeqSum(Y)
        sum_x2 == SeqSum([i \in 1..n |-> X[i] * X[i]])
        sum_y2 == SeqSum([i \in 1..n |-> Y[i] * Y[i]])
        sum_xy == SeqSum([i \in 1..n |-> X[i] * Y[i]])
        sum_z == SeqSum(Z)
        sum_xz == SeqSum([i \in 1..n |-> X[i] * Z[i]])
        sum_yz == SeqSum([i \in 1..n |-> Y[i] * Z[i]])
    IN [M |-> << <<sum_x2, sum_xy, sum_x>>,
                 <<sum_xy, sum_y2, sum_y>>,
                 <<sum_x, sum_y, n>> >>,
        v |-> <<sum_xz, sum_yz, sum_z>>]

SolveNormalEquations(eq) == solve_3x3(eq.M, eq.v)

fit_circle_kasa(pts) ==
    IF Len(pts) < 3 THEN NoCircle
    ELSE CircleOfSolution(
             pts,
             SolveNormalEquations(
                 NormalEquations([i \in 1..Len(pts) |-> pts[i][1]],
                                 [i \in 1..Len(pts) |-> pts[i][2]],
                                 [i \in 1..Len(pts) |->
                                    pts[i][1] * pts[i][1] + pts[i][2] * pts[i][2]])))

vector(p, q) == <<q[1] - p[1], q[2] - p[2]>>

dot(u, v) == u[1] * v[1] + u[2] * v[2]

\* |cos| of the angle between u and v in fixed point, 1.0 when one is null.
\* (normalize followed by angle_cos: the cosine of the normalized vectors is
\* the cosine of the vectors.)
AbsCos(u, v) ==
    IF dot(u, u) = 0 \/ dot(v, v) = 0 THEN Scale
    ELSE ISqrt(ScaleDiv2(dot(u, v) * dot(u, v), dot(u, u) * dot(v, v)))

\* abs(La - Lb) / max(La, Lb) in fixed point, from the squared lengths
LengthRatio(a2, b2) ==
    LET lo == IF a2 < b2 THEN a2 ELSE b2
        hi == IF a2 < b2 THEN b2 ELSE a2
    IN Scale - ISqrt(ScaleDiv2(lo, hi))

min_edge_len == 10

NotRect == [is_rect |-> FALSE, scored |-> FALSE, score |-> 0, vertices |-> <<>>]

\* Faulty variant of RectangleScore: the parallel penalty is the cosine itself
\* instead of what it lacks to reach 1.
RectangleScore_parallel_cosine(pts, v0, v1, v2, v3) ==
    LET angle_penalty == AbsCos(v0, v1) + AbsCos(v1, v2)
                         + AbsCos(v2, v3) + AbsCos(v3, v0)
        parallel_penalty == AbsCos(v0, v2) + AbsCos(v1, v3)
        length_penalty == LengthRatio(dot(v0, v0), dot(v2, v2))
                          + LengthRatio(dot(v1, v1), dot(v3, v3))
    IN angle_penalty + (parallel_penalty + length_penalty) \div 2

\* The penalties of a quadrilateral with edge vectors v0..v3
RectangleScore(pts, v0, v1, v2, v3) ==
    LET angle_penalty == AbsCos(v0, v1) + AbsCos(v1, v2)
                         + AbsCos(v2, v3) + AbsCos(v3, v0)
        parallel_penalty == (Scale - AbsCos(v0, v2)) + (Scale - AbsCos(v1, v3))
        length_penalty == LengthRatio(dot(v0, v0), dot(v2, v2))
                          + LengthRatio(dot(v1, v1), dot(v3, v3))
    IN angle_penalty + (parallel_penalty + length_penalty) \div 2

ScoredRectangle(pts, score) ==
    [is_rect |-> score < Scale, scored |-> TRUE, score |-> score, vertices |-> pts]

RectangleOfEdges(pts, v0, v1, v2, v3) ==
    IF \E v \in {v0, v1, v2, v3} : dot(v, v) < min_edge_len * min_edge_len
    THEN NotRect
    ELSE ScoredRectangle(pts, RectangleScore(pts, v0, v1, v2, v3))

RectangleOfVertices(pts) ==
    IF Len(pts) # 4 THEN NotRect
    ELSE RectangleOfEdges(pts, vector(pts[1], pts[2]), vector(pts[2], pts[3]),
                          vector(pts[3], pts[4]), vector(pts[4], pts[1]))

detect_rectangle_from_polygon(poly_points) ==
    IF Len(poly_points) < 4 THEN NotRect
    ELSE RectangleOfVertices(
             IF poly_points[1] = poly_points[Len(poly_points)]
             THEN SubSeq(poly_points, 1, Len(poly_points) - 1)
             ELSE poly_points)

\* Candidates in the order classify_shape inserts them into norm_scores.
CandidateOrder == <<"line", "circle", "rect">>

NoBest == [type |-> "none", score |-> 0]

\* Faulty variant of SelectBest: a later candidate of equal score replaces the best.
RECURSIVE SelectBest_last_wins(_, _, _)
SelectBest_last_wins(scores, k, best) ==
    IF k > Len(CandidateOrder) THEN best
    ELSE LET shape == CandidateOrder[k]
         IN IF shape \in DOMAIN scores
               /\ (best.type = "none" \/ scores[shape] <= best.score)
            THEN SelectBest_last_wins(scores, k + 1,
                                      [type |-> shape, score |-> scores[shape]])
            ELSE SelectBest_last_wins(scores, k + 1, best)

\* `for shape_type, score in norm_scores.items()` with its running best
RECURSIVE SelectBest(_, _, _)
SelectBest(scores, k, best) ==
    IF k > Len(CandidateOrder) THEN best
    ELSE LET shape == CandidateOrder[k]
         IN IF shape \in DOMAIN scores
               /\ (best.type = "none" \/ scores[shape] < best.score)
            THEN SelectBest(scores, k + 1,
                            [type |-> shape, score |-> scores[shape]])
            ELSE SelectBest(scores, k + 1, best)

\* Faulty variant of ScoreTooHigh: the limit is 0.1 instead of 1.0.
ScoreTooHigh_tenth(best) == best.type = "none" \/ best.score > Scale \div 10

\* `best_score is None or best_score > 1.0`
ScoreTooHigh(best) == best.type = "none" \/ best.score > Scale

line_tolerance == 3
circle_min_points == 6
circle_min_radius == 5
circle_tolerance_inverse == 4

NoCandidate == [ok |-> FALSE, score |-> 0, info |-> <<>>]

\* Candidate: line
LineCandidateOf(line_start, line_end, line_error) ==
    IF LineErrorBelow(line_error, line_tolerance)
    THEN [ok |-> TRUE,
          score |-> LineError(line_error) \div line_tolerance,
          info |-> [p0 |-> line_start, p1 |-> line_end,
                    rms_error |-> LineError(line_error)]]
    ELSE NoCandidate

\* Faulty variant of LineCandidate: the chord ends at the second point instead
\* of the last one.
LineCandidate_second_point(processed_points) ==
    LineCandidateOf(processed_points[1], processed_points[2],
                    line_fit_rms(processed_points, processed_points[1],
                                 processed_points[2]))

LineCandidate(processed_points) ==
    LineCandidateOf(processed_points[1], processed_points[Len(processed_points)],
                    line_fit_rms(processed_points, processed_points[1],
                                 processed_points[Len(processed_points)]))

\* Candidate: circle
CircleCandidateOf(circle, circle_rel_error) ==
    IF circle_rel_error * circle_tolerance_inverse < Scale
    THEN [ok |-> TRUE,
          score |-> circle_rel_error * circle_tolerance_inverse,
          info |-> [center |-> <<circle.cx, circle.cy>>,
                    radius |-> circle.r,
                    rms_radial_error |-> circle.rms,
                    relative_error |-> circle_rel_error]]
    ELSE NoCandidate

CircleCandidateOfFit(circle) ==
    IF circle.ok /\ circle.r > circle_min_radius * Scale
    THEN CircleCandidateOf(circle, (circle.rms * Scale) \div circle.r)
    ELSE NoCandidate

\* Faulty variant of CircleCandidate: three points are enough to try the fit.
CircleCandidate_three_points(processed_points) ==
    IF Len(processed_points) >= 3
    THEN CircleCandidateOfFit(fit_circle_kasa(processed_points))
    ELSE NoCandidate

CircleCandidate(processed_points) ==
    IF Len(processed_points) >= circle_min_points
    THEN CircleCandidateOfFit(fit_circle_kasa(processed_points))
    ELSE NoCandidate

\* Candidate: rectangle
RectCandidateOf(rect) ==
    IF rect.is_rect /\ rect.score < Scale
    THEN [ok |-> TRUE, score |-> rect.score,
          info |-> [vertices |-> rect.vertices, score |-> rect.score]]
    ELSE NoCandidate

\* Faulty variant of RectCandidate: the rectangle is tried on open strokes too.
RectCandidate_open(simplified_points, closed) ==
    IF Len(simplified_points) >= 4
    THEN RectCandidateOf(detect_rectangle_from_polygon(simplified_points))
    ELSE NoCandidate

RectCandidate(simplified_points, closed) ==
    IF closed /\ Len(simplified_points) >= 4
    THEN RectCandidateOf(detect_rectangle_from_polygon(simplified_points))
    ELSE NoCandidate

\* norm_scores and shape_info once the three candidates have been tried
Candidates(cand) ==
    [scores |-> [k \in {c \in DOMAIN cand : cand[c].ok} |-> cand[k].score],
     info |-> [k \in {c \in DOMAIN cand : cand[c].ok} |-> cand[k].info]]

ShapeOfBest(found, best) ==
    IF ScoreTooHigh(best)
    THEN [shape_type |-> "polyline", shape_info |-> found.info,
          norm_scores |-> found.scores]
    ELSE [shape_type |-> best.type, shape_info |-> found.info,
          norm_scores |-> found.scores]

ShapeOfCandidates(found) ==
    IF DOMAIN found.scores = {}
    THEN [shape_type |-> "polyline", shape_info |-> found.info,
          norm_scores |-> found.scores]
    ELSE ShapeOfBest(found, SelectBest(found.scores, 1, NoBest))

classify_shape(processed_points, simplified_points, closed) ==
    IF Len(processed_points) < 2 \/ Len(simplified_points) < 2
    THEN [shape_type |-> "polyline", shape_info |-> <<>>, norm_scores |-> <<>>]
    ELSE ShapeOfCandidates(
             Candidates([line |-> LineCandidate(processed_points),
                         circle |-> CircleCandidate(processed_points),
                         rect |-> RectCandidate(simplified_points, closed)]))

----------------------------------------------------------------------------
(* shapes.py, and the construction of a shape in main.py                   *)
(*                                                                         *)
(* A shape is a record holding the attributes of the four classes; the     *)
(* attributes that the class of the shape does not have stay at zero.      *)
(* The field id is the identity of the object: 0 until the main loop       *)
(* stores the shape.                                                       *)
(* Coordinates are integer pixels, on which float(v) keeps v.              *)

COLOR_PALETTE ==
    << <<255, 255, 255>>, <<255, 0, 0>>, <<0, 255, 0>>, <<0, 128, 255>>,
       <<255, 255, 0>> >>

BaseShape(kind, color, width) ==
    [id |-> 0, kind |-> kind, color |-> color, width |-> width,
     p0 |-> <<0, 0>>, p1 |-> <<0, 0>>,
     cx |-> 0, cy |-> 0, radius |-> 0,
     x |-> 0, y |-> 0, w |-> 0, h |-> 0,
     points |-> <<>>, is_closed |-> FALSE]

\* No shape has been built.
NoShape == BaseShape("none", <<0, 0, 0>>, 0)

LineShape(p0, p1, color, width) ==
    [BaseShape("line", color, width) EXCEPT !.p0 = p0, !.p1 = p1]

CircleShape(center, radius, color, width) ==
    [BaseShape("circle", color, width) EXCEPT
        !.cx = center[1], !.cy = center[2], !.radius = radius]

RectShape(topleft, width_rect, height_rect, color, width) ==
    [BaseShape("rect", color, width) EXCEPT
        !.x = topleft[1], !.y = topleft[2], !.w = width_rect, !.h = height_rect]

PolylineShape(pts, closed, color, width) ==
    [BaseShape("polyline", color, width) EXCEPT
        !.points = pts, !.is_closed = closed]

Translate(p, dx, dy) == <<p[1] + dx, p[2] + dy>>

\* Faulty variant of move: only the first end of a line, and only the
\* first point of a polyline, follow the displacement.
move_first_point_only(s, dx, dy) ==
    IF s.kind = "line"
    THEN [s EXCEPT !.p0 = Translate(s.p0, dx, dy)]
    ELSE IF s.kind = "circle"
    THEN [s EXCEPT !.cx = s.cx + dx, !.cy = s.cy + dy]
    ELSE IF s.kind = "rect"
    THEN [s EXCEPT !.x = s.x + dx, !.y = s.y + dy]
    ELSE IF s.kind = "polyline"
    THEN [s EXCEPT !.points =
              [i \in 1..Len(s.points) |->
                  IF i = 1 THEN Translate(s.points[i], dx, dy) ELSE s.points[i]]]
    ELSE s

move(s, dx, dy) ==
    IF s.kind = "line"
    THEN [s EXCEPT !.p0 = Translate(s.p0, dx, dy), !.p1 = Translate(s.p1, dx, dy)]
    ELSE IF s.kind = "circle"
    THEN [s EXCEPT !.cx = s.cx + dx, !.cy = s.cy + dy]
    ELSE IF s.kind = "rect"
    THEN [s EXCEPT !.x = s.x + dx, !.y = s.y + dy]
    ELSE IF s.kind = "polyline"
    THEN [s EXCEPT !.points =
              [i \in 1..Len(s.points) |-> Translate(s.points[i], dx, dy)]]
    ELSE s

SetMin(S) == CHOOSE m \in S : \A v \in S : m <= v
SetMax(S) == CHOOSE m \in S : \A v \in S : m >= v

\* geometry.py: (min_x, min_y, max_x, max_y) of a non-empty list
bounding_box(pts) ==
    LET xs == {pts[i][1] : i \in 1..Len(pts)}
        ys == {pts[i][2] : i \in 1..Len(pts)}
    IN [min_x |-> SetMin(xs), min_y |-> SetMin(ys),
        max_x |-> SetMax(xs), max_y |-> SetMax(ys)]

\* geometry.py
distance(p, q) == hypot(q[1] - p[1], q[2] - p[2])

\* Faulty variant of Larger: the tolerance has no floor.
Larger_no_floor(a, b) == a

\* max(a, b)
Larger(a, b) == IF a >= b THEN a ELSE b

\* The distance from (x0, y0) to its projection on the line through
\* (x1, y1) with direction (dx, dy), the parameter t = num / den of the
\* projection being clamped to [0, 1].
ProjectionDistance(x0, y0, x1, y1, dx, dy, num, den) ==
    IF num <= 0 THEN hypot(x0 - x1, y0 - y1)
    ELSE IF num >= den THEN hypot(x0 - (x1 + dx), y0 - (y1 + dy))
    ELSE [n |-> ((x0 - x1) * den - num * dx) * ((x0 - x1) * den - num * dx)
              + ((y0 - y1) * den - num * dy) * ((y0 - y1) * den - num * dy),
          d |-> den * den]

LineContains(s, x0, y0, x1, y1, dx, dy) ==
    IF dx = 0 /\ dy = 0
    THEN AtMost(distance(<<x0, y0>>, <<x1, y1>>), Larger(s.width + 4, 6))
    ELSE AtMost(ProjectionDistance(x0, y0, x1, y1, dx, dy,
                                   (x0 - x1) * dx + (y0 - y1) * dy,
                                   dx * dx + dy * dy),
                Larger(s.width + 4, 6))

\* a >= e for a distance a and a number e
AtLeast(a, e) == IF e <= 0 THEN TRUE ELSE a.n >= e * e * a.d

\* abs(d - radius) <= margin, for a distance d
CircleContains(d, radius, margin) ==
    /\ AtMost(d, radius + margin)
    /\ AtLeast(d, radius - margin)

RectContains(s, px, py, margin) ==
    /\ px >= s.x - margin
    /\ px <= s.x + s.w + margin
    /\ py >= s.y - margin
    /\ py <= s.y + s.h + margin

BoxContains(box, px, py, margin) ==
    /\ px >= box.min_x - margin
    /\ px <= box.max_x + margin
    /\ py >= box.min_y - margin
    /\ py <= box.max_y + margin

contains_point(s, position) ==
    IF s.kind = "line"
    THEN LineContains(s, position[1], position[2], s.p0[1], s.p0[2],
                      s.p1[1] - s.p0[1], s.p1[2] - s.p0[2])
    ELSE IF s.kind = "circle"
    THEN CircleContains(distance(<<s.cx, s.cy>>, position), s.radius,
                        Larger(s.width + 4, 8))
    ELSE IF s.kind = "rect"
    THEN RectContains(s, position[1], position[2], Larger(s.width + 4, 8))
    ELSE IF s.kind = "polyline"
    THEN /\ s.points # <<>>
         /\ BoxContains(bounding_box(s.points), position[1], position[2],
                        Larger(s.width + 6, 10))
    ELSE FALSE

\* main.py: the points of the fallback polyline
poly_points(simplified_points, processed_points) ==
    IF simplified_points # <<>> THEN simplified_points
    ELSE IF processed_points # <<>> THEN processed_points
    ELSE <<>>

\* Faulty variant of RectOfVertices: the rectangle is taken from the first
\* three vertices, not from the bounding box of them all.
RectOfVertices_first_edges(vertices, color, width) ==
    RectShape(vertices[1], vertices[2][1] - vertices[1][1],
              vertices[3][2] - vertices[2][2], color, width)

RectOfVertices(vertices, color, width) ==
    LET box == bounding_box(vertices)
    IN RectShape(<<box.min_x, box.min_y>>, box.max_x - box.min_x,
                 box.max_y - box.min_y, color, width)

\* Faulty variant of create_shape_from_classification: the fallback
\* polyline prefers the processed points and is never closed.
create_shape_prefers_processed(type, info, simplified_points, processed_points, closed, color, width) ==
    IF type = "line" /\ "line" \in DOMAIN info
    THEN LineShape(info["line"].p0, info["line"].p1, color, width)
    ELSE IF type = "circle" /\ "circle" \in DOMAIN info
    THEN CircleShape(info["circle"].center, info["circle"].radius, color, width)
    ELSE IF type = "rect" /\ "rect" \in DOMAIN info
                          /\ info["rect"].vertices # <<>>
    THEN RectOfVertices(info["rect"].vertices, color, width)
    ELSE PolylineShape(poly_points(processed_points, simplified_points),
                       FALSE, color, width)

create_shape_from_classification(type, info, simplified_points, processed_points, closed, color, width) ==
    IF type = "line" /\ "line" \in DOMAIN info
    THEN LineShape(info["line"].p0, info["line"].p1, color, width)
    ELSE IF type = "circle" /\ "circle" \in DOMAIN info
    THEN CircleShape(info["circle"].center, info["circle"].radius, color, width)
    ELSE IF type = "rect" /\ "rect" \in DOMAIN info
                          /\ info["rect"].vertices # <<>>
    THEN RectOfVertices(info["rect"].vertices, color, width)
    ELSE PolylineShape(poly_points(simplified_points, processed_points),
                       closed, color, width)

----------------------------------------------------------------------------
(* main.py: constants and the state of the main loop before its first      *)
(* event.  None is the empty tuple: current_stroke is None or the tuple of  *)
(* one stroke, last_mouse_pos is None or a position.  selected_shape is 0  *)
(* for None, or the id of the selected shape.                              *)

EPSILON_MIN == 1
EPSILON_MAX == 200
EPSILON_STEP == 2
CLOSE_THRESHOLD_PX == 20
TARGET_SPACING_PX == 5
DefaultEpsilon == 10
stroke_width == 3

None == <<>>

AppStart ==
    /\ mode_text = "MODO: desenho"
    /\ epsilon_value = DefaultEpsilon
    /\ strokes = <<>>
    /\ shapes = <<>>
    /\ redo_stack = <<>>
    /\ current_stroke = None
    /\ selected_shape = 0
    /\ last_mouse_pos = None
    /\ stroke_color = COLOR_PALETTE[1]
    /\ next_id = 1
    /\ running = "running"

\* No call on a shape has been made.
NoShapeCall ==
    /\ shape_obj = NoShape
    /\ shape_before = NoShape
    /\ delta = <<0, 0>>
    /\ pos = <<0, 0>>
    /\ hit = FALSE

----------------------------------------------------------------------------
(* Driver of the pure functions of rdp.py and strokes.py: one input list,  *)
(* then calls on it.                                                       *)

\* The segment of the resampling example of the specification.
SpecExample == [points |-> <<<<0, 0>>, <<100, 0>>>>, spacing |-> 10]

Thresholds == (-1)..MaxThreshold
\* The example segment is resampled with the spacing of the example.
Spacings(pts) ==
    IF pts = SpecExample.points THEN {SpecExample.spacing} ELSE 0..MaxSpacing

AxisAligned(p, q) == p[1] = q[1] \/ p[2] = q[2]

\* Every segment has an integer length, so that arc lengths are exact.
Measurable(pts) == \A i \in 1..(Len(pts) - 1) : AxisAligned(pts[i], pts[i + 1])

\* What Stroke.add_point builds: non-empty, no two consecutive equal points.
CapturedStroke(pts) ==
    /\ pts # <<>>
    /\ \A i \in 1..(Len(pts) - 1) : pts[i] # pts[i + 1]

Init ==
    /\ pc = "start"
    /\ points \in SeqsUpTo(Grid, MaxLen) \cup {SpecExample.points}
    /\ epsilon = 0
    /\ simplified = <<>>
    /\ again = <<>>
    /\ epsilon2 = 0
    /\ simplified2 = <<>>
    /\ close_threshold = 0
    /\ target_spacing = 0
    /\ processed = <<>>
    /\ is_closed = FALSE
    /\ resampled = <<>>
    /\ shape_type = "none"
    /\ shape_info = <<>>
    /\ norm_scores = <<>>
    /\ NoShapeCall
    /\ AppStart

Simplify(e) ==
    /\ pc = "start"
    /\ pc' = "simplified"
    /\ epsilon' = e
    /\ simplified' = rdp(points, e)
    /\ UNCHANGED <<points, again, epsilon2, simplified2>>
    /\ UNCHANGED preVars
    /\ UNCHANGED fitVars
    /\ UNCHANGED shapeVars
    /\ UNCHANGED appVars

SimplifyAgain ==
    /\ pc = "simplified"
    /\ pc' = "again"
    /\ again' = rdp(simplified, epsilon)
    /\ UNCHANGED <<points, epsilon, simplified, epsilon2, simplified2>>
    /\ UNCHANGED preVars
    /\ UNCHANGED fitVars
    /\ UNCHANGED shapeVars
    /\ UNCHANGED appVars

SimplifyLooser(e) ==
    /\ pc = "simplified"
    /\ e > epsilon
    /\ pc' = "looser"
    /\ epsilon2' = e
    /\ simplified2' = rdp(points, e)
    /\ UNCHANGED <<points, epsilon, simplified, again>>
    /\ UNCHANGED preVars
    /\ UNCHANGED fitVars
    /\ UNCHANGED shapeVars
    /\ UNCHANGED appVars

Resample(sp) ==
    /\ pc = "start"
    /\ sp <= 0 \/ Measurable(points)
    /\ pc' = "resampled"
    /\ target_spacing' = sp
    /\ resampled' = resample_by_arc_length(points, sp)
    /\ UNCHANGED <<points, close_threshold, processed, is_closed>>
    /\ UNCHANGED rdpVars
    /\ UNCHANGED fitVars
    /\ UNCHANGED shapeVars
    /\ UNCHANGED appVars

Preprocess(th, sp) ==
    /\ pc = "start"
    /\ sp <= 0 \/
          LET cleaned == remove_consecutive_duplicates_xy(points)
          IN cleaned = <<>> \/ Measurable(CloseLoop(cleaned, is_path_closed(cleaned, th)))
    /\ pc' = "preprocessed"
    /\ close_threshold' = th
    /\ target_spacing' = sp
    /\ LET r == preprocess_points_for_rdp(points, th, sp)
       IN /\ processed' = r.processed
          /\ is_closed' = r.closed
    /\ UNCHANGED <<points, resampled>>
    /\ UNCHANGED rdpVars
    /\ UNCHANGED fitVars
    /\ UNCHANGED shapeVars
    /\ UNCHANGED appVars

\* main.py, pointer-up: the processed points of a captured stroke go to rdp.
SimplifyStroke(e) ==
    /\ pc = "preprocessed"
    /\ CapturedStroke(points)
    /\ pc' = "stroke"
    /\ epsilon' = e
    /\ simplified' = simplify_stroke(points, processed, e)
    /\ UNCHANGED <<points, again, epsilon2, simplified2>>
    /\ UNCHANGED preVars
    /\ UNCHANGED fitVars
    /\ UNCHANGED shapeVars
    /\ UNCHANGED appVars

Next ==
    \/ \E e \in Epsilons : Simplify(e)
    \/ SimplifyAgain
    \/ \E e \in Epsilons : SimplifyLooser(e)
    \/ \E sp \in Spacings(points) : Resample(sp)
    \/ \E th \in Thresholds, sp \in Spacings(points) : Preprocess(th, sp)
    \/ \E e \in 1..MaxEps : SimplifyStroke(e)

Spec == Init /\ [][Next]_vars

----------------------------------------------------------------------------
(* Properties of the simplifier *)

\* C1: RDP idempotence - for every point sequence P and every epsilon > 0,
\* rdp(rdp(P, epsilon), epsilon) equals rdp(P, epsilon).
RdpIdempotent ==
    (pc = "again" /\ epsilon > 0) => again = simplified

RdpIdempotentWitness ==
    /\ pc = "again"
    /\ epsilon > 0
    /\ Len(simplified) >= 3
    /\ Len(simplified) < Len(points)

\* Squared distance from p to the segment a-b, as n / d.
SegmentDistanceSq(p, a, b) ==
    LET abx == b[1] - a[1]
        aby == b[2] - a[2]
        apx == p[1] - a[1]
        apy == p[2] - a[2]
        len2 == abx * abx + aby * aby
        t == apx * abx + apy * aby
        cross == apx * aby - apy * abx
    IN IF len2 = 0 \/ t <= 0 THEN [n |-> apx * apx + apy * apy, d |-> 1]
       ELSE IF t >= len2
            THEN [n |-> (p[1] - b[1]) * (p[1] - b[1]) + (p[2] - b[2]) * (p[2] - b[2]), d |-> 1]
            ELSE [n |-> cross * cross, d |-> len2]

NearPolyline(p, poly, eps) ==
    \E k \in 1..Len(poly) :
        \/ p = poly[k]
        \/ k < Len(poly) /\ AtMost(SegmentDistanceSq(p, poly[k], poly[k + 1]), eps)

\* C2: RDP distance guarantee - for epsilon > 0 every point of the input lies
\* within distance epsilon of the simplified polyline (of one of its segments).
RdpWithinEpsilonOfPolyline ==
    (pc = "simplified" /\ epsilon > 0) =>
        \A i \in 1..Len(points) : NearPolyline(points[i], simplified, epsilon)

\* s is an order-preserving subsequence of t (by value).
RECURSIVE IsSubsequence(_, _)
IsSubsequence(s, t) ==
    IF s = <<>> THEN TRUE
    ELSE IF t = <<>> THEN FALSE
    ELSE IF s[1] = t[1] THEN IsSubsequence(Tail(s), Tail(t))
    ELSE IsSubsequence(s, Tail(t))

KeepsEnds(s, t) ==
    /\ IsSubsequence(s, t)
    /\ Len(s) <= Len(t)
    /\ Len(t) >= 2 => s # <<>> /\ s[1] = t[1] /\ s[Len(s)] = t[Len(t)]

\* C3: for every P and every epsilon, rdp(P, epsilon) is an order-preserving
\* subsequence of P, never longer than P, that keeps P's first and last point
\* when P has at least 2 points; so the simplified points of a finalized stroke
\* are a subsequence of its processed points with the same first and last point.
RdpSubsequenceKeepsEnds ==
    /\ pc = "simplified" => KeepsEnds(simplified, points)
    /\ pc = "stroke" =>
          /\ KeepsEnds(simplified, processed)
          /\ simplified # <<>>
          /\ simplified[1] = processed[1]
          /\ simplified[Len(simplified)] = processed[Len(processed)]

RdpSubsequenceWitness ==
    /\ pc = "stroke"
    /\ Len(simplified) >= 3
    /\ Len(simplified) < Len(processed)

\* C4: RDP monotonic tolerance - for every P and tolerances e1 < e2,
\* len(rdp(P, e1)) >= len(rdp(P, e2)).
RdpMonotonicTolerance ==
    (pc = "looser" /\ epsilon < epsilon2) => Len(simplified) >= Len(simplified2)

RdpMonotonicWitness ==
    /\ pc = "looser"
    /\ 0 < epsilon
    /\ epsilon < epsilon2
    /\ Len(simplified) > Len(simplified2)

\* C5: RDP no-op - rdp(P, epsilon) equals P element for element whenever
\* epsilon <= 0 or P has fewer than 3 points (the empty sequence included).
RdpNoOp ==
    (pc = "simplified" /\ (epsilon <= 0 \/ Len(points) < 3)) =>
        /\ Len(simplified) = Len(points)
        /\ \A i \in 1..Len(points) : simplified[i] = points[i]

RdpNoOpWitness ==
    /\ pc = "simplified"
    /\ epsilon = 0
    /\ Len(points) >= 3
    /\ points[1] = points[Len(points)]

----------------------------------------------------------------------------
(* Properties of the preprocessor *)

\* Number of points left once consecutive duplicates are removed.
DistinctRuns(pts) ==
    IF pts = <<>> THEN 0
    ELSE 1 + Cardinality({i \in 1..(Len(pts) - 1) : pts[i] # pts[i + 1]})

\* distance(p, q) <= e, on the squares
Within(p, q, e) ==
    /\ e >= 0
    /\ (q[1] - p[1]) * (q[1] - p[1]) + (q[2] - p[2]) * (q[2] - p[2]) <= e * e

\* C6: preprocess_points_for_rdp returns is_closed = true exactly when at least
\* 3 points remain after removing consecutive duplicates and
\* distance(first, last) <= close_threshold; empty input returns ([], false).
ClosedIffThreeAndNear ==
    pc = "preprocessed" =>
        /\ is_closed <=> /\ DistinctRuns(points) >= 3
                         /\ Within(points[1], points[Len(points)], close_threshold)
        /\ points = <<>> => processed = <<>> /\ ~is_closed

ClosedIffWitness ==
    /\ pc = "preprocessed"
    /\ is_closed
    /\ points[1] # points[Len(points)]
    /\ Len(points) > DistinctRuns(points)

\* C7: whenever is_closed is returned true, the first and last processed points
\* coincide or are within close_threshold of each other, for every
\* close_threshold and target_spacing.
ClosedEndsMeet ==
    (pc = "preprocessed" /\ is_closed) =>
        /\ processed # <<>>
        /\ \/ processed[1] = processed[Len(processed)]
           \/ Within(processed[1], processed[Len(processed)], close_threshold)

ClosedEndsMeetWitness ==
    /\ pc = "preprocessed"
    /\ is_closed
    /\ points[1] # points[Len(points)]
    /\ target_spacing > 0
    /\ Len(processed) > Len(points) + 1

\* Arc length of the polyline, and the point q lying on it at arc length a.
ArcLength(pts) == Cumulative(pts)[Len(pts)]

OnSegmentAt(q, p0, p1, offset) ==
    /\ (q[1] - p0[1]) * (p1[2] - p0[2]) = (q[2] - p0[2]) * (p1[1] - p0[1])
    /\ (q[1] - p0[1]) * (q[1] - p1[1]) <= 0
    /\ (q[2] - p0[2]) * (q[2] - p1[2]) <= 0
    /\ (q[1] - p0[1]) * (q[1] - p0[1]) + (q[2] - p0[2]) * (q[2] - p0[2]) = offset * offset

AtArcLength(pts, q, a) ==
    \E j \in 1..(Len(pts) - 1) :
        /\ Cumulative(pts)[j] <= a
        /\ a <= Cumulative(pts)[j + 1]
        /\ OnSegmentAt(q, pts[j], pts[j + 1], a - Cumulative(pts)[j])

\* C8: resampling endpoint fidelity - for a polyline of arc length L and a
\* spacing s > 0 with floor(L / s) >= 1, the output points lie at arc lengths
\* 0, s, 2s, ... followed by a final point at arc length L, so the first and
\* last output points are the first and last input points; the segment
\* (0,0)-(100,0) with s = 10 gives the 11 points x = 0, 10, ..., 100, y = 0.
ResampleEndpointFidelity ==
    (/\ pc = "resampled"
     /\ target_spacing > 0
     /\ Len(points) >= 2
     /\ ArcLength(points) \div target_spacing >= 1) =>
        LET n == Len(resampled)
        IN /\ n >= 2
           /\ \A k \in 1..(n - 1) :
                 AtArcLength(points, resampled[k], (k - 1) * target_spacing)
           /\ (n - 2) * target_spacing < ArcLength(points)
           /\ AtArcLength(points, resampled[n], ArcLength(points))
           /\ resampled[1] = points[1]
           /\ resampled[n] = points[Len(points)]
           /\ (points = SpecExample.points /\ target_spacing = SpecExample.spacing) =>
                 resampled = [i \in 1..11 |-> <<10 * (i - 1), 0>>]

ResampleWitness ==
    /\ pc = "resampled"
    /\ target_spacing > 1
    /\ Len(points) >= 3
    /\ ArcLength(points) % target_spacing # 0
    /\ Len(resampled) >= 3
    /\ resampled[Len(resampled)] = points[Len(points)]
    /\ points[1] # points[Len(points)]

----------------------------------------------------------------------------
(* Driver of the classifier: a pair of point lists and a closure flag, then *)
(* one call of classify_shape.  The lists are centred on the origin so that *)
(* the sums of the circle fit stay small.                                   *)

Deviations == {-4, 0, 1, 3}

\* Five points along y = 0 whose interior points are off the chord.
WobblyLines ==
    {<< <<-10, 0>>, <<-5, a>>, <<0, b>>, <<5, c>>, <<10, 0>> >> :
        a \in Deviations, b \in Deviations, c \in Deviations}

\* Six points of a flat arc: accepted both as a line and as a circle.
Arcs ==
    {<< <<-10, 0>>, <<-6, a>>, <<-2, b>>, <<2, b>>, <<6, a>>, <<10, 0>> >> :
        a \in {0, 1, 2}, b \in {0, 1, 2, 3}}

\* Eight points around the origin, at distance a on the axes and b * sqrt(2)
\* on the diagonals.
Ring(a, b) ==
    << <<a, 0>>, <<b, b>>, <<0, a>>, <<-b, b>>,
       <<-a, 0>>, <<-b, -b>>, <<0, -a>>, <<b, -b>> >>

RingSizes == {4, 7, 10} \X {3, 5, 7}

Rings ==
    {Ring(ab[1], ab[2]) : ab \in RingSizes}
    \cup {Append(Ring(ab[1], ab[2]), <<ab[1], 0>>) : ab \in RingSizes}
    \cup {SubSeq(Ring(ab[1], ab[2]), 1, k) : ab \in RingSizes, k \in {5, 6}}

\* Twelve points exactly on the circle of radius 10 around the origin.
ExactCircle ==
    << <<10, 0>>, <<8, 6>>, <<6, 8>>, <<0, 10>>, <<-6, 8>>, <<-8, 6>>,
       <<-10, 0>>, <<-8, -6>>, <<-6, -8>>, <<0, -10>>, <<6, -8>>, <<8, -6>> >>

DegenerateLists ==
    {<<>>, << <<0, 0>> >>, << <<0, 0>>, <<0, 0>> >>, << <<0, 0>>, <<10, 0>> >>,
     [i \in 1..3 |-> <<1, 1>>], [i \in 1..6 |-> <<3, 3>>],
     [i \in 1..6 |-> <<2 * i - 7, 0>>], [i \in 1..6 |-> <<0, i>>],
     [i \in 1..6 |-> <<2 * i - 7, 2 * i - 7>>], [i \in 1..7 |-> <<i - 4, 2 * i - 7>>]}

ProcessedInputs == WobblyLines \cup Arcs \cup Rings \cup {ExactCircle} \cup DegenerateLists

\* A quadrilateral of base 20 and height h whose third corner is moved by (s, t).
Quad(s, t, h) == << <<0, 0>>, <<20, 0>>, <<20 + s, h + t>>, <<0, h>> >>

Quads == {Quad(s, t, h) : s \in {0, 3, 8}, t \in {0, 3}, h \in {5, 10, 20}}

\* The closed axis-aligned rectangle of corner (x, y) and sides w, h, drawn in
\* either direction.
AxisRectangle(x, y, w, h, clockwise) ==
    IF clockwise
    THEN << <<x, y>>, <<x, y + h>>, <<x + w, y + h>>, <<x + w, y>>, <<x, y>> >>
    ELSE << <<x, y>>, <<x + w, y>>, <<x + w, y + h>>, <<x, y + h>>, <<x, y>> >>

AxisRectangles ==
    {AxisRectangle(x, 0, w, h, cw) :
        x \in {-5, 0}, w \in {9, 10, 13}, h \in {10, 30}, cw \in BOOLEAN}

SimplifiedInputs ==
    Quads
    \cup AxisRectangles
    \cup {Append(q, q[1]) : q \in Quads}
    \cup {SubSeq(q, 1, 3) : q \in Quads}
    \cup {Append(SubSeq(q, 1, 3), q[1]) : q \in Quads}
    \cup {Append(Append(q, <<-5, 5>>), q[1]) : q \in Quads}
    \cup {<<>>, << <<0, 0>> >>, << <<0, 0>>, <<10, 0>> >>,
          [i \in 1..4 |-> <<0, 0>>], [i \in 1..5 |-> <<0, 0>>]}

InitFit ==
    /\ pc = "start"
    /\ processed \in ProcessedInputs
    /\ simplified \in SimplifiedInputs
    /\ is_closed \in BOOLEAN
    /\ points = <<>>
    /\ epsilon = 0
    /\ again = <<>>
    /\ epsilon2 = 0
    /\ simplified2 = <<>>
    /\ close_threshold = 0
    /\ target_spacing = 0
    /\ resampled = <<>>
    /\ shape_type = "none"
    /\ shape_info = <<>>
    /\ norm_scores = <<>>
    /\ NoShapeCall
    /\ AppStart

Classify ==
    /\ pc = "start"
    /\ pc' = "classified"
    /\ LET r == classify_shape(processed, simplified, is_closed)
       IN /\ shape_type' = r.shape_type
          /\ shape_info' = r.shape_info
          /\ norm_scores' = r.norm_scores
    /\ UNCHANGED <<points, processed, simplified, is_closed>>
    /\ UNCHANGED <<epsilon, again, epsilon2, simplified2>>
    /\ UNCHANGED <<close_threshold, target_spacing, resampled>>
    /\ UNCHANGED shapeVars
    /\ UNCHANGED appVars

NextFit == Classify

SpecFit == InitFit /\ [][NextFit]_vars

----------------------------------------------------------------------------
(* Properties of the classifier *)

Rank(kind) == IF kind = "line" THEN 1 ELSE IF kind = "circle" THEN 2 ELSE 3

\* C9: classify_shape returns the accepted candidate with the smallest
\* normalized score; when several accepted candidates share the minimal score
\* it returns the earliest of them in the order line, circle, rect.
SmallestScoreEarliestWins ==
    (pc = "classified" /\ DOMAIN norm_scores # {}) =>
        /\ shape_type \in DOMAIN norm_scores
        /\ \A k \in DOMAIN norm_scores :
              /\ norm_scores[shape_type] <= norm_scores[k]
              /\ norm_scores[k] = norm_scores[shape_type] => Rank(shape_type) <= Rank(k)

SmallestScoreTieWitness ==
    /\ pc = "classified"
    /\ {"line", "rect"} \subseteq DOMAIN norm_scores
    /\ norm_scores["line"] = norm_scores["rect"]
    /\ shape_type = "line"

\* C10: classify_shape is total - it returns exactly one shape_type among
\* line, circle, rect, polyline; it returns ("polyline", {}) when either input
\* has fewer than 2 points; and it returns "polyline" if and only if no
\* candidate was produced or the best normalized score exceeds 1.0.
ClassifyTotal ==
    pc = "classified" =>
        /\ shape_type \in {"line", "circle", "rect", "polyline"}
        /\ (Len(processed) < 2 \/ Len(simplified) < 2) =>
              shape_type = "polyline" /\ DOMAIN shape_info = {}
        /\ shape_type = "polyline" <=>
              \/ DOMAIN norm_scores = {}
              \/ \A k \in DOMAIN norm_scores : norm_scores[k] > Scale

ClassifyTotalWitness ==
    /\ pc = "classified"
    /\ shape_type = "polyline"
    /\ Len(processed) >= 6
    /\ Len(simplified) >= 4
    /\ is_closed

\* Squared distance from p to the chord a-b as the simplifier defines it: to
\* the line through a and b, or to a when the chord has zero length (n / d).
ChordOffsetSq(p, a, b) ==
    IF a = b
    THEN [n |-> (p[1] - a[1]) * (p[1] - a[1]) + (p[2] - a[2]) * (p[2] - a[2]), d |-> 1]
    ELSE LET cross == (p[1] - a[1]) * (b[2] - a[2]) - (p[2] - a[2]) * (b[1] - a[1])
         IN [n |-> cross * cross,
             d |-> (b[1] - a[1]) * (b[1] - a[1]) + (b[2] - a[2]) * (b[2] - a[2])]

\* Mean of the squared distances of all the points to the chord (first, last).
ChordMeanSquare(pts) ==
    LET off == [i \in 1..Len(pts) |-> ChordOffsetSq(pts[i], pts[1], pts[Len(pts)])]
    IN [n |-> SeqSum([i \in 1..Len(pts) |-> off[i].n]), d |-> Len(pts) * off[1].d]

\* RMS < 3.0
ChordRmsBelowTolerance(pts) ==
    ChordMeanSquare(pts).n < 3 * 3 * ChordMeanSquare(pts).d

\* RMS in fixed point
ChordRms(pts) == ISqrt(ScaleDiv2(ChordMeanSquare(pts).n, ChordMeanSquare(pts).d))

\* C11 as stated: for at least 2 processed points there is a line candidate
\* exactly when the RMS of the distances to the chord (first, last) is < 3.0,
\* the distance to a zero-length chord being the distance to its start.
LineCandidateIffRmsBelow ==
    (pc = "classified" /\ Len(processed) >= 2 /\ Len(simplified) >= 2) =>
        ("line" \in DOMAIN norm_scores <=> ChordRmsBelowTolerance(processed))

\* C11 (amended): for at least 2 processed and at least 2 simplified points
\* there is a line candidate exactly when the first and last processed points
\* differ and the RMS of the perpendicular distances of all processed points to
\* the line through them is < 3.0; its normalized score is RMS / 3.0; a chord
\* of zero length gives no line candidate.
LineCandidateIffChordRmsBelow ==
    (pc = "classified" /\ Len(processed) >= 2 /\ Len(simplified) >= 2) =>
        /\ "line" \in DOMAIN norm_scores <=>
              /\ processed[1] # processed[Len(processed)]
              /\ ChordRmsBelowTolerance(processed)
        /\ "line" \in DOMAIN norm_scores =>
              /\ "line" \in DOMAIN shape_info
              /\ shape_info["line"].rms_error = ChordRms(processed)
              /\ 3 * norm_scores["line"] <= ChordRms(processed)
              /\ ChordRms(processed) < 3 * (norm_scores["line"] + 1)

LineCandidateWitness ==
    /\ pc = "classified"
    /\ Len(processed) >= 5
    /\ "line" \in DOMAIN norm_scores
    /\ norm_scores["line"] > Scale \div 2
    /\ shape_type # "line"

\* Every point of pts lies on the line through the first and the last one.
Collinear(pts) ==
    \A i \in 1..Len(pts) :
        (pts[i][1] - pts[1][1]) * (pts[Len(pts)][2] - pts[1][2])
            = (pts[i][2] - pts[1][2]) * (pts[Len(pts)][1] - pts[1][1])

\* C12: line recovery - at least 2 processed points that are exactly collinear,
\* with distinct first and last points, are classified as "line" with
\* rms_error 0 and p0 / p1 the first and last processed points, for any
\* simplified list of at least 2 points and any is_closed, whatever the circle
\* and rectangle candidates score.
CollinearIsLine ==
    (/\ pc = "classified"
     /\ Len(processed) >= 2
     /\ Len(simplified) >= 2
     /\ processed[1] # processed[Len(processed)]
     /\ Collinear(processed)) =>
        /\ shape_type = "line"
        /\ "line" \in DOMAIN shape_info
        /\ shape_info["line"].rms_error = 0
        /\ shape_info["line"].p0 = processed[1]
        /\ shape_info["line"].p1 = processed[Len(processed)]

CollinearIsLineWitness ==
    /\ pc = "classified"
    /\ Len(processed) >= 5
    /\ processed[1] # processed[Len(processed)]
    /\ Collinear(processed)
    /\ "rect" \in DOMAIN norm_scores
    /\ norm_scores["rect"] = 0
    /\ shape_type = "line"

\* The vertices of a polygon: its points without a last point equal to the first.
PolygonVertices(poly) ==
    IF Len(poly) >= 2 /\ poly[1] = poly[Len(poly)]
    THEN SubSeq(poly, 1, Len(poly) - 1)
    ELSE poly

\* Squared length of the edge leaving the i-th vertex.
EdgeLengthSq(v, i) ==
    LET a == v[i]
        b == v[(i % Len(v)) + 1]
    IN (b[1] - a[1]) * (b[1] - a[1]) + (b[2] - a[2]) * (b[2] - a[2])

\* C13: classify_shape returns "rect" only if is_closed is true and the
\* simplified points, without a trailing point equal to the first, are exactly 4
\* vertices whose 4 edges all have length >= 10.0 and whose rectangle score is
\* < 1.0; a polygon of 3 vertices, or of 5 or more, is never a rectangle.
RectOnlyIfClosedQuadrilateral ==
    (pc = "classified" /\ shape_type = "rect") =>
        /\ is_closed
        /\ Len(PolygonVertices(simplified)) = 4
        /\ \A i \in 1..4 : EdgeLengthSq(PolygonVertices(simplified), i) >= 10 * 10
        /\ "rect" \in DOMAIN shape_info
        /\ shape_info["rect"].vertices = PolygonVertices(simplified)
        /\ shape_info["rect"].score < Scale
        /\ norm_scores["rect"] = shape_info["rect"].score

RectOnlyIfWitness ==
    /\ pc = "classified"
    /\ shape_type = "rect"
    /\ Len(simplified) = 5
    /\ norm_scores["rect"] > 0
    /\ "line" \in DOMAIN norm_scores

\* poly is [A, B, C, D, A], an axis-aligned rectangle whose sides are all >= 10.
IsClosedAxisRectangle(poly) ==
    /\ Len(poly) = 5
    /\ poly[5] = poly[1]
    /\ \/ /\ poly[1][2] = poly[2][2] /\ poly[2][1] = poly[3][1]
          /\ poly[3][2] = poly[4][2] /\ poly[4][1] = poly[1][1]
          /\ Abs(poly[2][1] - poly[1][1]) >= 10
          /\ Abs(poly[3][2] - poly[2][2]) >= 10
       \/ /\ poly[1][1] = poly[2][1] /\ poly[2][2] = poly[3][2]
          /\ poly[3][1] = poly[4][1] /\ poly[4][2] = poly[1][2]
          /\ Abs(poly[2][2] - poly[1][2]) >= 10
          /\ Abs(poly[3][1] - poly[2][1]) >= 10

\* C14 as stated: every closed axis-aligned rectangle [A, B, C, D, A] of sides
\* >= 10 is detected with score 0 and vertices A, B, C, D, and classify_shape
\* called with it as simplified points and is_closed = true returns "rect".
AxisRectangleIsRect ==
    (/\ pc = "classified"
     /\ is_closed
     /\ Len(processed) >= 2
     /\ IsClosedAxisRectangle(simplified)) =>
        /\ "rect" \in DOMAIN shape_info
        /\ shape_info["rect"].score = 0
        /\ shape_info["rect"].vertices = SubSeq(simplified, 1, 4)
        /\ shape_type = "rect"

\* C14 (amended): such a rectangle is detected with score 0 and vertices
\* A, B, C, D; classify_shape called with it as simplified points, is_closed
\* true and at least 2 processed points has the rectangle candidate with
\* normalized score 0, and returns "rect" unless the line or the circle
\* candidate has normalized score 0 too, which then wins by evaluation order.
AxisRectangleIsRectUnlessTie ==
    (/\ pc = "classified"
     /\ is_closed
     /\ Len(processed) >= 2
     /\ IsClosedAxisRectangle(simplified)) =>
        /\ "rect" \in DOMAIN shape_info
        /\ shape_info["rect"].score = 0
        /\ shape_info["rect"].vertices = SubSeq(simplified, 1, 4)
        /\ norm_scores["rect"] = 0
        /\ shape_type = "rect" <=>
              \A k \in DOMAIN norm_scores \ {"rect"} : norm_scores[k] > 0
        /\ shape_type # "rect" =>
              shape_type \in {"line", "circle"} /\ norm_scores[shape_type] = 0

AxisRectangleWitness ==
    /\ pc = "classified"
    /\ is_closed
    /\ IsClosedAxisRectangle(simplified)
    /\ simplified[2][1] = simplified[1][1]
    /\ {"line", "circle"} \subseteq DOMAIN norm_scores
    /\ shape_type = "rect"

\* The three pivots of the elimination on the normal equations of the circle
\* fit, each multiplied by the pivots before it (they are zero together).
CirclePivots(pts) ==
    LET n == Len(pts)
        Sx == SeqSum([i \in 1..n |-> pts[i][1]])
        Sy == SeqSum([i \in 1..n |-> pts[i][2]])
        Sxx == SeqSum([i \in 1..n |-> pts[i][1] * pts[i][1]])
        Syy == SeqSum([i \in 1..n |-> pts[i][2] * pts[i][2]])
        Sxy == SeqSum([i \in 1..n |-> pts[i][1] * pts[i][2]])
    IN << Sxx,
          Sxx * Syy - Sxy * Sxy,
          Sxx * Syy * n + 2 * Sxy * Sy * Sx
              - Sx * Syy * Sx - Sxx * Sy * Sy - n * Sxy * Sxy >>

CircleFitSolvable(pts) ==
    Len(pts) >= 3 /\ \A k \in 1..3 : CirclePivots(pts)[k] # 0

\* C15: classify_shape returns "circle" only if there are at least 6 processed
\* points, the fit succeeded (no zero pivot, r^2 > 0), the radius is > 5.0 and
\* radial RMS / r < 0.25; when the fit reports no fit the circle candidate is
\* absent from shape_info and the classification still returns a result.
CircleOnlyIfFitted ==
    pc = "classified" =>
        /\ shape_type = "circle" =>
              /\ Len(processed) >= 6
              /\ CircleFitSolvable(processed)
              /\ "circle" \in DOMAIN shape_info
              /\ shape_info["circle"].radius > 5 * Scale
              /\ shape_info["circle"].relative_error
                     = (shape_info["circle"].rms_radial_error * Scale)
                           \div shape_info["circle"].radius
              /\ 4 * shape_info["circle"].relative_error < Scale
              /\ norm_scores["circle"] = 4 * shape_info["circle"].relative_error
        /\ ~CircleFitSolvable(processed) =>
              /\ "circle" \notin DOMAIN shape_info
              /\ shape_type \in {"line", "rect", "polyline"}

CircleOnlyIfWitness ==
    /\ pc = "classified"
    /\ shape_type = "circle"
    /\ "line" \in DOMAIN norm_scores
    /\ is_closed
    /\ Len(simplified) >= 4

CircleNoFitWitness ==
    /\ pc = "classified"
    /\ Len(processed) >= 6
    /\ ~CircleFitSolvable(processed)
    /\ shape_type = "polyline"

----------------------------------------------------------------------------
(* Driver of the shapes: the result of a classification and the point      *)
(* lists of a stroke, then the shape built from them, then one call on the *)
(* shape.                                                                  *)

MaxDelta == 2
MaxPos == 12

Colors == {COLOR_PALETTE[1], COLOR_PALETTE[2]}

\* Stroke widths on both sides of the floors of the tolerances.
Widths == {1, 5}

Deltas == {<<0, 0>>, <<1, -1>>, <<-MaxDelta, 0>>, <<0, MaxDelta>>}

\* Rows of pointer positions around the edges of the tolerance bands.
PosRows == {-MaxPos, -9, 0, 3, 11, MaxPos}
Positions == {<<px, py>> : px \in (-MaxPos)..MaxPos, py \in PosRows}

LineInfos ==
    << [p0 |-> <<0, 0>>, p1 |-> <<8, 6>>, rms_error |-> 0],
       [p0 |-> <<2, 3>>, p1 |-> <<2, 3>>, rms_error |-> 0] >>

CircleInfos ==
    << [center |-> <<3, 4>>, radius |-> 10, rms_error |-> 0],
       [center |-> <<0, 0>>, radius |-> 6, rms_error |-> 0] >>

RectInfos ==
    << [vertices |-> << <<0, 0>>, <<4, 0>>, <<4, 2>>, <<0, 2>> >>, score |-> 0],
       [vertices |-> <<>>, score |-> 0] >>

ShapeKinds == {"line", "circle", "rect"}

\* shape_info with the entries of the candidates in K
ShapeInfoOf(K, v) ==
    [k \in K |-> IF k = "line" THEN LineInfos[v]
                 ELSE IF k = "circle" THEN CircleInfos[v]
                 ELSE RectInfos[v]]

ShapeInfos == {ShapeInfoOf(K, v) : K \in SUBSET ShapeKinds, v \in 1..2}

SimplifiedLists == {<<>>, << <<0, 0>>, <<2, 1>>, <<1, 0>> >>}
ProcessedLists == {<<>>, << <<0, 0>>, <<1, 1>>, <<2, 1>>, <<1, 0>> >>}

InitShape ==
    /\ pc = "start"
    /\ shape_type \in ShapeKinds \cup {"polyline"}
    /\ shape_info \in ShapeInfos
    /\ simplified \in SimplifiedLists
    /\ processed \in ProcessedLists
    /\ is_closed \in BOOLEAN
    /\ norm_scores = <<>>
    /\ points = <<>>
    /\ epsilon = 0
    /\ again = <<>>
    /\ epsilon2 = 0
    /\ simplified2 = <<>>
    /\ close_threshold = 0
    /\ target_spacing = 0
    /\ resampled = <<>>
    /\ NoShapeCall
    /\ AppStart

CreateShape(color, width) ==
    /\ pc = "start"
    /\ pc' = "created"
    /\ shape_obj' = create_shape_from_classification(
                        shape_type, shape_info, simplified, processed,
                        is_closed, color, width)
    /\ UNCHANGED <<shape_before, delta, pos, hit>>
    /\ UNCHANGED <<points, rdpVars, preVars, fitVars, appVars>>

Move(dx, dy) ==
    /\ pc = "created"
    /\ pc' = "moved"
    /\ shape_before' = shape_obj
    /\ delta' = <<dx, dy>>
    /\ shape_obj' = move(shape_obj, dx, dy)
    /\ UNCHANGED <<pos, hit>>
    /\ UNCHANGED <<points, rdpVars, preVars, fitVars, appVars>>

ContainsPoint(position) ==
    /\ pc = "created"
    /\ pc' = "tested"
    /\ pos' = position
    /\ hit' = contains_point(shape_obj, position)
    /\ UNCHANGED <<shape_obj, shape_before, delta>>
    /\ UNCHANGED <<points, rdpVars, preVars, fitVars, appVars>>

NextShape ==
    \/ \E color \in Colors, width \in Widths : CreateShape(color, width)
    \/ \E d \in Deltas : Move(d[1], d[2])
    \/ \E position \in Positions : ContainsPoint(position)

SpecShape == InitShape /\ [][NextShape]_vars

----------------------------------------------------------------------------
(* Properties of the shapes *)

\* C16: when the classifier answers "polyline", or the entry of the chosen
\* candidate is missing from shape_info, the shape built is a polyline that
\* carries is_closed and whose points are the simplified points if there
\* are any, otherwise the processed points if there are any, otherwise none.
PolylineFallback ==
    (pc = "created" /\ (shape_type = "polyline" \/ shape_type \notin DOMAIN shape_info))
        => /\ shape_obj.kind = "polyline"
           /\ shape_obj.is_closed = is_closed
           /\ shape_obj.points =
                  (IF Len(simplified) > 0 THEN simplified
                   ELSE IF Len(processed) > 0 THEN processed
                   ELSE <<>>)

PolylineFallbackWitness ==
    /\ pc = "created"
    /\ shape_type = "circle"
    /\ "circle" \notin DOMAIN shape_info
    /\ "line" \in DOMAIN shape_info
    /\ simplified = <<>>
    /\ processed # <<>>
    /\ is_closed
    /\ shape_obj.kind = "polyline"
    /\ shape_obj.points = processed

\* The attributes of a shape that no move touches.
SameFrame(s, t) ==
    /\ t.kind = s.kind
    /\ t.color = s.color
    /\ t.width = s.width
    /\ t.radius = s.radius
    /\ t.w = s.w
    /\ t.h = s.h
    /\ t.is_closed = s.is_closed
    /\ Len(t.points) = Len(s.points)

\* C17: move(dx, dy) shifts every coordinate the shape owns by (dx, dy) (both
\* ends of a line, the centre of a circle, the top-left corner of a
\* rectangle, every point of a polyline, in order) and changes nothing
\* else: radius, rectangle width and height (which are >= 0), number of
\* polyline points, is_closed, colour and stroke width.
MoveTranslates ==
    pc = "moved" =>
        /\ SameFrame(shape_before, shape_obj)
        /\ shape_obj.w >= 0
        /\ shape_obj.h >= 0
        /\ shape_obj.kind = "line" =>
               /\ shape_obj.p0[1] - shape_before.p0[1] = delta[1]
               /\ shape_obj.p0[2] - shape_before.p0[2] = delta[2]
               /\ shape_obj.p1[1] - shape_before.p1[1] = delta[1]
               /\ shape_obj.p1[2] - shape_before.p1[2] = delta[2]
        /\ shape_obj.kind = "circle" =>
               /\ shape_obj.cx - shape_before.cx = delta[1]
               /\ shape_obj.cy - shape_before.cy = delta[2]
        /\ shape_obj.kind = "rect" =>
               /\ shape_obj.x - shape_before.x = delta[1]
               /\ shape_obj.y - shape_before.y = delta[2]
        /\ shape_obj.kind = "polyline" =>
               \A i \in 1..Len(shape_before.points) :
                   /\ shape_obj.points[i][1] - shape_before.points[i][1] = delta[1]
                   /\ shape_obj.points[i][2] - shape_before.points[i][2] = delta[2]

MoveTranslatesWitness ==
    /\ pc = "moved"
    /\ delta = <<1, -1>>
    /\ shape_before.kind = "polyline"
    /\ shape_before.is_closed
    /\ Len(shape_before.points) >= 3
    /\ shape_obj.points[3] = <<shape_before.points[3][1] + 1,
                               shape_before.points[3][2] - 1>>

\* The tolerance of a hit test: the stroke width plus extra, at least floor.
Band(width, extra, floor) == IF width + extra > floor THEN width + extra ELSE floor

\* sqrt(dsq) is within margin of radius
NearCircumference(dsq, radius, margin) ==
    /\ dsq <= (radius + margin) * (radius + margin)
    /\ radius < margin \/ dsq >= (radius - margin) * (radius - margin)

\* p is inside the box spanned by the points pts, inflated by margin.
InInflatedBox(p, pts, margin) ==
    /\ \E i \in 1..Len(pts) : p[1] >= pts[i][1] - margin
    /\ \E i \in 1..Len(pts) : p[1] <= pts[i][1] + margin
    /\ \E i \in 1..Len(pts) : p[2] >= pts[i][2] - margin
    /\ \E i \in 1..Len(pts) : p[2] <= pts[i][2] + margin

InToleranceBand(s, p) ==
    IF s.kind = "line"
    THEN AtMost(SegmentDistanceSq(p, s.p0, s.p1), Band(s.width, 4, 6))
    ELSE IF s.kind = "circle"
    THEN NearCircumference((p[1] - s.cx) * (p[1] - s.cx) + (p[2] - s.cy) * (p[2] - s.cy),
                           s.radius, Band(s.width, 4, 8))
    ELSE IF s.kind = "rect"
    THEN InInflatedBox(p, << <<s.x, s.y>>, <<s.x + s.w, s.y + s.h>> >>,
                       Band(s.width, 4, 8))
    ELSE InInflatedBox(p, s.points, Band(s.width, 6, 10))

\* C18: contains_point(pos) is true exactly when pos is in the tolerance
\* band of the shape: for a line, at distance at most max(width + 4, 6) of
\* the segment p0-p1; for a circle, at a distance of the centre that differs
\* from the radius by at most max(width + 4, 8); for a rectangle, inside the
\* rectangle inflated by max(width + 4, 8); for a polyline, inside the
\* bounding box of its points inflated by max(width + 6, 10), and never when
\* it has no points.
ContainsPointIffInBand ==
    pc = "tested" =>
        /\ hit <=> InToleranceBand(shape_obj, pos)
        /\ (shape_obj.kind = "polyline" /\ shape_obj.points = <<>>) => ~hit

\* A thin line is hit at a distance between 5 and 6 of the segment, and a
\* position farther than 6 from it is not.
ContainsPointWitness ==
    /\ pc = "tested"
    /\ shape_obj.kind = "line"
    /\ shape_obj.p0 # shape_obj.p1
    /\ shape_obj.width = 1
    /\ hit
    /\ GreaterThan(SegmentDistanceSq(pos, shape_obj.p0, shape_obj.p1), 5)

----------------------------------------------------------------------------
(* strokes.py: the Stroke class.  The time of a point is left out: nothing  *)
(* reads it.  The field id is the identity of the object.  The             *)
(* classification result of a stroke (detected_shape_type and              *)
(* detected_shape_info, written by set_detected_shape) is the one the      *)
(* specification gives to a stroke record.                                 *)

Stroke(color, width) ==
    [id |-> 0, color |-> color, width |-> width, points |-> <<>>,
     processed_points |-> <<>>, simplified_points |-> <<>>,
     is_closed |-> FALSE,
     detected_shape_type |-> "none", detected_shape_info |-> <<>>]

\* Faulty variant of add_point: a new position replaces the last point.
add_point_replaces_last(stroke, position) ==
    IF stroke.points = <<>>
    THEN [stroke EXCEPT !.points = <<position>>]
    ELSE [stroke EXCEPT !.points =
              Append(SubSeq(stroke.points, 1, Len(stroke.points) - 1), position)]

add_point(stroke, position) ==
    IF stroke.points = <<>>
    THEN [stroke EXCEPT !.points = <<position>>]
    ELSE IF stroke.points[Len(stroke.points)] # position
    THEN [stroke EXCEPT !.points = Append(stroke.points, position)]
    ELSE stroke

is_empty(stroke) == Len(stroke.points) = 0

get_xy_points(stroke) == stroke.points

set_processed_points(stroke, xy_points, closed) ==
    [stroke EXCEPT !.processed_points = xy_points, !.is_closed = closed]

set_simplified_points(stroke, xy_points) ==
    [stroke EXCEPT !.simplified_points = xy_points]

set_detected_shape(stroke, type, info) ==
    [stroke EXCEPT !.detected_shape_type = type, !.detected_shape_info = info]

----------------------------------------------------------------------------
(* main.py: the handlers of the event loop                                 *)

DrawMode == "MODO: desenho"
SelectionMode == "MODO: seleção"

\* The circle of a classification, in pixels: the fit is computed in fixed
\* point.
PixelCircle(circle) ==
    [circle EXCEPT !.center = <<(circle.center[1] + Scale \div 2) \div Scale,
                                (circle.center[2] + Scale \div 2) \div Scale>>,
                   !.radius = (circle.radius + Scale \div 2) \div Scale]

PixelInfo(info) ==
    [k \in DOMAIN info |-> IF k = "circle" THEN PixelCircle(info[k]) ELSE info[k]]

\* Pointer-up on a non-empty stroke: the stroke with its processed and
\* simplified points and its classification, and the shape built from them.
ClassifiedStroke(stroke, processed_xy, closed, simplified_xy, found) ==
    [stroke |-> set_detected_shape(
                    set_simplified_points(
                        set_processed_points(stroke, processed_xy, closed),
                        simplified_xy),
                    found.shape_type, found.shape_info),
     shape |-> [create_shape_from_classification(
                    found.shape_type, PixelInfo(found.shape_info),
                    simplified_xy, processed_xy, closed,
                    stroke.color, stroke.width)
                EXCEPT !.id = stroke.id]]

SimplifiedStroke(stroke, processed_xy, closed, simplified_xy) ==
    ClassifiedStroke(stroke, processed_xy, closed, simplified_xy,
                     classify_shape(processed_xy, simplified_xy, closed))

\* Faulty variant of PreprocessedStroke: the stroke is simplified with the
\* default tolerance.
PreprocessedStroke_default_epsilon(stroke, pre, eps) ==
    SimplifiedStroke(stroke, pre.processed, pre.closed,
                     simplify_stroke(get_xy_points(stroke), pre.processed,
                                     DefaultEpsilon))

PreprocessedStroke(stroke, pre, eps) ==
    SimplifiedStroke(stroke, pre.processed, pre.closed,
                     simplify_stroke(get_xy_points(stroke), pre.processed, eps))

FinalizeStroke(stroke, eps) ==
    PreprocessedStroke(stroke,
                       preprocess_points_for_rdp(get_xy_points(stroke),
                                                 CLOSE_THRESHOLD_PX,
                                                 TARGET_SPACING_PX),
                       eps)

Last(s) == s[Len(s)]
Front(s) == SubSeq(s, 1, Len(s) - 1)

\* QUIT event, or key Q
Quit ==
    /\ running = "running"
    /\ running' = "quit"
    /\ UNCHANGED <<mode_text, epsilon_value, strokes, shapes, redo_stack,
                   current_stroke, selected_shape, last_mouse_pos,
                   stroke_color, next_id>>
    /\ UNCHANGED <<pc, points, rdpVars, preVars, fitVars, shapeVars>>

\* key C
Clear ==
    /\ running = "running"
    /\ strokes' = <<>>
    /\ shapes' = <<>>
    /\ redo_stack' = <<>>
    /\ current_stroke' = None
    /\ selected_shape' = 0
    /\ last_mouse_pos' = None
    /\ UNCHANGED <<mode_text, epsilon_value, stroke_color, next_id, running>>
    /\ UNCHANGED <<pc, points, rdpVars, preVars, fitVars, shapeVars>>

\* Faulty variant of UndoneLists, the three lists after key Z: the removed
\* pair is not kept for redo.
UndoneLists_drops_pair(s, h, r) ==
    IF s # <<>> /\ h # <<>>
    THEN [strokes |-> Front(s), shapes |-> Front(h), redo_stack |-> r]
    ELSE [strokes |-> s, shapes |-> h, redo_stack |-> r]

UndoneLists(s, h, r) ==
    IF s # <<>> /\ h # <<>>
    THEN [strokes |-> Front(s), shapes |-> Front(h),
          redo_stack |-> Append(r, <<Last(s), Last(h)>>)]
    ELSE [strokes |-> s, shapes |-> h, redo_stack |-> r]

\* key Z
Undo ==
    /\ running = "running"
    /\ strokes' = UndoneLists(strokes, shapes, redo_stack).strokes
    /\ shapes' = UndoneLists(strokes, shapes, redo_stack).shapes
    /\ redo_stack' = UndoneLists(strokes, shapes, redo_stack).redo_stack
    /\ UNCHANGED <<mode_text, epsilon_value, current_stroke, selected_shape,
                   last_mouse_pos, stroke_color, next_id, running>>
    /\ UNCHANGED <<pc, points, rdpVars, preVars, fitVars, shapeVars>>

\* Faulty variant of RedoneLists, the three lists after key Y: the pair
\* stays on the redo stack.
RedoneLists_keeps_pair(s, h, r) ==
    IF r # <<>>
    THEN [strokes |-> Append(s, Last(r)[1]), shapes |-> Append(h, Last(r)[2]),
          redo_stack |-> r]
    ELSE [strokes |-> s, shapes |-> h, redo_stack |-> r]

RedoneLists(s, h, r) ==
    IF r # <<>>
    THEN [strokes |-> Append(s, Last(r)[1]), shapes |-> Append(h, Last(r)[2]),
          redo_stack |-> Front(r)]
    ELSE [strokes |-> s, shapes |-> h, redo_stack |-> r]

\* key Y
Redo ==
    /\ running = "running"
    /\ strokes' = RedoneLists(strokes, shapes, redo_stack).strokes
    /\ shapes' = RedoneLists(strokes, shapes, redo_stack).shapes
    /\ redo_stack' = RedoneLists(strokes, shapes, redo_stack).redo_stack
    /\ UNCHANGED <<mode_text, epsilon_value, current_stroke, selected_shape,
                   last_mouse_pos, stroke_color, next_id, running>>
    /\ UNCHANGED <<pc, points, rdpVars, preVars, fitVars, shapeVars>>

Smaller(a, b) == IF a <= b THEN a ELSE b

DecreasedEpsilon(eps) == Larger(EPSILON_MIN, eps - EPSILON_STEP)

IncreasedEpsilon(eps) == Smaller(EPSILON_MAX, eps + EPSILON_STEP)

\* key [
DecreaseEpsilon ==
    /\ running = "running"
    /\ epsilon_value' = DecreasedEpsilon(epsilon_value)
    /\ UNCHANGED <<mode_text, strokes, shapes, redo_stack, current_stroke,
                   selected_shape, last_mouse_pos, stroke_color, next_id, running>>
    /\ UNCHANGED <<pc, points, rdpVars, preVars, fitVars, shapeVars>>

\* key ]
IncreaseEpsilon ==
    /\ running = "running"
    /\ epsilon_value' = IncreasedEpsilon(epsilon_value)
    /\ UNCHANGED <<mode_text, strokes, shapes, redo_stack, current_stroke,
                   selected_shape, last_mouse_pos, stroke_color, next_id, running>>
    /\ UNCHANGED <<pc, points, rdpVars, preVars, fitVars, shapeVars>>

\* keys 1 to 5
SelectColor(key) ==
    /\ running = "running"
    /\ stroke_color' = COLOR_PALETTE[key]
    /\ UNCHANGED <<mode_text, epsilon_value, strokes, shapes, redo_stack,
                   current_stroke, selected_shape, last_mouse_pos, next_id,
                   running>>
    /\ UNCHANGED <<pc, points, rdpVars, preVars, fitVars, shapeVars>>

\* key V
SwitchMode ==
    /\ running = "running"
    /\ mode_text' = IF mode_text = SelectionMode THEN DrawMode ELSE SelectionMode
    /\ selected_shape' = 0
    /\ last_mouse_pos' = None
    /\ UNCHANGED <<epsilon_value, strokes, shapes, redo_stack, current_stroke,
                   stroke_color, next_id, running>>
    /\ UNCHANGED <<pc, points, rdpVars, preVars, fitVars, shapeVars>>

\* The indices of the shapes under a position.
ShapesAt(position) == {i \in 1..Len(shapes) : contains_point(shapes[i], position)}

\* MOUSEBUTTONDOWN, button 1
PointerDown(position) ==
    /\ running = "running"
    /\ IF mode_text = SelectionMode
       THEN /\ IF ShapesAt(position) # {}
               THEN /\ selected_shape' = shapes[SetMax(ShapesAt(position))].id
                    /\ last_mouse_pos' = position
               ELSE /\ selected_shape' = 0
                    /\ UNCHANGED last_mouse_pos
            /\ UNCHANGED <<current_stroke, next_id>>
       ELSE /\ current_stroke' =
                   << add_point([Stroke(stroke_color, stroke_width)
                                    EXCEPT !.id = next_id], position) >>
            /\ next_id' = next_id + 1
            /\ UNCHANGED <<selected_shape, last_mouse_pos>>
    /\ UNCHANGED <<mode_text, epsilon_value, strokes, shapes, redo_stack,
                   stroke_color, running>>
    /\ UNCHANGED <<pc, points, rdpVars, preVars, fitVars, shapeVars>>

\* selected_shape.move(dx, dy): the object moves wherever it is held.
MoveSelected(list, dx, dy) ==
    [i \in 1..Len(list) |->
        IF list[i].id = selected_shape THEN move(list[i], dx, dy) ELSE list[i]]

MoveSelectedPair(list, dx, dy) ==
    [i \in 1..Len(list) |->
        IF list[i][2].id = selected_shape
        THEN <<list[i][1], move(list[i][2], dx, dy)>>
        ELSE list[i]]

\* MOUSEMOTION with button 1 held
PointerMotion(position) ==
    /\ running = "running"
    /\ IF mode_text = SelectionMode
       THEN /\ IF selected_shape # 0 /\ last_mouse_pos # None
               THEN /\ shapes' = MoveSelected(shapes,
                                     position[1] - last_mouse_pos[1],
                                     position[2] - last_mouse_pos[2])
                    /\ redo_stack' = MoveSelectedPair(redo_stack,
                                         position[1] - last_mouse_pos[1],
                                         position[2] - last_mouse_pos[2])
                    /\ last_mouse_pos' = position
               ELSE UNCHANGED <<shapes, redo_stack, last_mouse_pos>>
            /\ UNCHANGED current_stroke
       ELSE /\ IF current_stroke # None
               THEN current_stroke' = << add_point(current_stroke[1], position) >>
               ELSE UNCHANGED current_stroke
            /\ UNCHANGED <<shapes, redo_stack, last_mouse_pos>>
    /\ UNCHANGED <<mode_text, epsilon_value, strokes, selected_shape,
                   stroke_color, next_id, running>>
    /\ UNCHANGED <<pc, points, rdpVars, preVars, fitVars, shapeVars>>

\* Faulty variant of AppendFinalized: the stroke is stored without its shape.
AppendFinalized_no_shape(pair) ==
    /\ strokes' = Append(strokes, pair.stroke)
    /\ shapes' = shapes
    /\ redo_stack' = <<>>

AppendFinalized(pair) ==
    /\ strokes' = Append(strokes, pair.stroke)
    /\ shapes' = Append(shapes, pair.shape)
    /\ redo_stack' = <<>>

\* MOUSEBUTTONUP, button 1
PointerUp ==
    /\ running = "running"
    /\ IF mode_text = SelectionMode
       THEN /\ selected_shape' = 0
            /\ last_mouse_pos' = None
            /\ UNCHANGED <<strokes, shapes, redo_stack, current_stroke>>
       ELSE /\ IF current_stroke # None /\ ~is_empty(current_stroke[1])
               THEN AppendFinalized(FinalizeStroke(current_stroke[1], epsilon_value))
               ELSE UNCHANGED <<strokes, shapes, redo_stack>>
            /\ current_stroke' = None
            /\ UNCHANGED <<selected_shape, last_mouse_pos>>
    /\ UNCHANGED <<mode_text, epsilon_value, stroke_color, next_id, running>>
    /\ UNCHANGED <<pc, points, rdpVars, preVars, fitVars, shapeVars>>

----------------------------------------------------------------------------
(* Drivers of the event loop.  The pointer stays on one row of the canvas,  *)
(* so that every segment of a stroke has an integer length.                *)

MaxStrokes == 2
MaxStrokePoints == 3
MaxDrift == 10
EpsilonWindow == 2

DrawPositions == {<<0, 0>>, <<10, 0>>}

\* One more position, far from every shape.
PointerPositions == DrawPositions \cup {<<60, 0>>}

\* The x coordinates a shape owns.
OwnedXs(s) ==
    {s.p0[1], s.p1[1], s.cx, s.x, s.x + s.w} \cup {s.points[i][1] : i \in 1..Len(s.points)}

\* A dragged shape stays between the drawing positions and MaxDrift beyond.
InWindow(s) == \A v \in OwnedXs(s) : 0 <= v /\ v <= 10 + MaxDrift

\* A stroke can start: the pointer is on the drawing positions and fewer
\* than MaxStrokes strokes have been started.
CanPress(position) ==
    mode_text = DrawMode => (position \in DrawPositions /\ next_id <= MaxStrokes)

\* A drag keeps the stroke within MaxStrokePoints points and the selected
\* shape within the window.
CanDrag(position) ==
    IF mode_text = SelectionMode
    THEN /\ \A i \in 1..Len(shapes) : InWindow(shapes'[i])
         /\ \A i \in 1..Len(redo_stack) : InWindow(redo_stack'[i][2])
    ELSE /\ position \in DrawPositions
         /\ current_stroke' # None => Len(current_stroke'[1].points) <= MaxStrokePoints

\* The colour is picked on an empty canvas.
ColorKeys == {1, 2}
CanPick == strokes = <<>> /\ redo_stack = <<>> /\ current_stroke = None

InEpsilonWindow ==
    /\ epsilon_value' >= DefaultEpsilon - EpsilonWindow
    /\ epsilon_value' <= DefaultEpsilon + EpsilonWindow

InitApp ==
    /\ pc = "start"
    /\ points = <<>>
    /\ epsilon = 0
    /\ simplified = <<>>
    /\ again = <<>>
    /\ epsilon2 = 0
    /\ simplified2 = <<>>
    /\ close_threshold = 0
    /\ target_spacing = 0
    /\ processed = <<>>
    /\ is_closed = FALSE
    /\ resampled = <<>>
    /\ shape_type = "none"
    /\ shape_info = <<>>
    /\ norm_scores = <<>>
    /\ NoShapeCall
    /\ AppStart

NextApp ==
    \/ Quit
    \/ Clear
    \/ Undo
    \/ Redo
    \/ DecreaseEpsilon /\ InEpsilonWindow
    \/ IncreaseEpsilon /\ InEpsilonWindow
    \/ \E key \in ColorKeys : CanPick /\ SelectColor(key)
    \/ SwitchMode
    \/ \E position \in PointerPositions : CanPress(position) /\ PointerDown(position)
    \/ \E position \in PointerPositions : PointerMotion(position) /\ CanDrag(position)
    \/ PointerUp

SpecApp == InitApp /\ [][NextApp]_vars

\* Drawing, undoing and dragging, with the default tolerance and colour.
NextEdit ==
    \/ Clear
    \/ Undo
    \/ Redo
    \/ SwitchMode
    \/ \E position \in PointerPositions : CanPress(position) /\ PointerDown(position)
    \/ \E position \in PointerPositions : PointerMotion(position) /\ CanDrag(position)
    \/ PointerUp

SpecEdit == InitApp /\ [][NextEdit]_vars

\* Drawing only, with every tolerance.
NextDraw ==
    \/ DecreaseEpsilon
    \/ IncreaseEpsilon
    \/ \E position \in DrawPositions : CanPress(position) /\ PointerDown(position)
    \/ \E position \in DrawPositions : PointerMotion(position) /\ CanDrag(position)
    \/ PointerUp

SpecDraw == InitApp /\ [][NextDraw]_vars

----------------------------------------------------------------------------
(* Properties of the event loop *)

\* The shape that the stored data of a finalized stroke gives.
ShapeOfStroke(s) ==
    [create_shape_from_classification(
         s.detected_shape_type, PixelInfo(s.detected_shape_info),
         s.simplified_points, s.processed_points, s.is_closed, s.color, s.width)
     EXCEPT !.id = s.id]

\* The displacement that takes the first coordinates of s to those of t.
Displacement(s, t) ==
    IF s.kind = "line" THEN <<t.p0[1] - s.p0[1], t.p0[2] - s.p0[2]>>
    ELSE IF s.kind = "circle" THEN <<t.cx - s.cx, t.cy - s.cy>>
    ELSE IF s.kind = "rect" THEN <<t.x - s.x, t.y - s.y>>
    ELSE IF Len(s.points) > 0 /\ Len(t.points) > 0
    THEN <<t.points[1][1] - s.points[1][1], t.points[1][2] - s.points[1][2]>>
    ELSE <<0, 0>>

\* t is the shape s, moved.
Displaced(s, t) == t = move(s, Displacement(s, t)[1], Displacement(s, t)[2])

\* C19: in every reachable state the finalized strokes and the shapes are
\* two lists of the same length, paired index by index: each finalized
\* stroke carries one shape type, and the shape at its index is the one
\* shape built from it at its finalization (moved, if it was dragged); no
\* shape stands for two strokes.
StrokesPairedWithShapes ==
    /\ Len(strokes) = Len(shapes)
    /\ \A i \in 1..Len(strokes) :
           /\ strokes[i].detected_shape_type \in {"line", "circle", "rect", "polyline"}
           /\ i <= Len(shapes) => /\ shapes[i].id = strokes[i].id
                                  /\ Displaced(ShapeOfStroke(strokes[i]), shapes[i])
    /\ \A i, j \in 1..Len(shapes) : shapes[i].id = shapes[j].id => i = j

\* Two finalized strokes, a line and a polyline, after the line was dragged.
StrokesPairedWitness ==
    /\ Len(strokes) = 2
    /\ Len(shapes) = 2
    /\ strokes[1].detected_shape_type = "line"
    /\ shapes[1].kind = "line"
    /\ shapes[1].p0 # strokes[1].processed_points[1]
    /\ strokes[2].detected_shape_type = "polyline"
    /\ shapes[2].kind = "polyline"

\* The points that the simplifier receives, and what it gives with eps.
SimplifiedWith(s, eps) ==
    LET input == IF Len(s.processed_points) >= 2 THEN s.processed_points ELSE s.points
    IN IF Len(input) >= 2 THEN rdp(input, eps) ELSE input

\* C20: the tolerance stays within [EPSILON_MIN, EPSILON_MAX] = [1, 200]
\* whatever keys are pressed, starting from 10, and the stroke that a
\* pointer-up finalizes is simplified with the tolerance in force at that
\* pointer-up.
EpsilonInRangeAndInForce ==
    /\ [](EPSILON_MIN <= epsilon_value /\ epsilon_value <= EPSILON_MAX)
    /\ [][Len(strokes') = Len(strokes) + 1 =>
             Last(strokes').simplified_points = SimplifiedWith(Last(strokes'), epsilon_value)]_vars

\* The same gesture drawn twice, before and after the tolerance was raised
\* to its upper limit, is simplified to three points and then to two.
EpsilonInForceWitness ==
    /\ epsilon_value = EPSILON_MAX
    /\ Len(strokes) = 2
    /\ strokes[1].points = strokes[2].points
    /\ Len(strokes[1].simplified_points) = 3
    /\ Len(strokes[2].simplified_points) = 2

\* A step that adds one point at the end of the stroke in progress.
ExtendsCurrentStroke ==
    /\ current_stroke # None
    /\ current_stroke' # None
    /\ current_stroke'[1].id = current_stroke[1].id
    /\ Front(current_stroke'[1].points) = current_stroke[1].points
    /\ [current_stroke'[1] EXCEPT !.points = current_stroke[1].points] = current_stroke[1]

\* A step that starts a stroke: a new object that holds one point.
StartsStroke ==
    /\ current_stroke' # None
    /\ current_stroke'[1].id = next_id
    /\ Len(current_stroke'[1].points) = 1
    /\ mode_text = DrawMode

\* C21: a stroke in progress is created at a pointer-down and is finalized
\* or discarded at the next pointer-up: after every pointer-up there is no
\* stroke in progress, at most one stroke is in flight (current_stroke holds
\* none or one), and the stroke in progress changes only by being started at
\* a pointer-down in drawing mode or by receiving a point at its end, under
\* every interleaving with mode switch, clear, undo and redo.
StrokeLifecycle ==
    /\ [](Len(current_stroke) <= 1)
    /\ [][PointerUp => current_stroke' = None]_vars
    /\ [][(current_stroke' # current_stroke /\ current_stroke' # None)
              => (StartsStroke \/ ExtendsCurrentStroke)]_vars

\* C22: starting a new stroke clears the redo list: after a pointer-down in
\* drawing mode the redo list is empty, so that no later redo restores a
\* stroke that was undone before the new stroke began.
NewStrokeClearsRedo ==
    [][StartsStroke => redo_stack' = <<>>]_vars

\* The three lists of the state.
Lists == [strokes |-> strokes, shapes |-> shapes, redo_stack |-> redo_stack]

\* The objects of a list are pairwise distinct.
DistinctObjects(list) ==
    \A i, j \in 1..Len(list) : list[i].id = list[j].id => i = j

\* The strokes and the shapes that the redo stack holds.
RedoStrokes == [i \in 1..Len(redo_stack) |-> redo_stack[i][1]]
RedoShapes == [i \in 1..Len(redo_stack) |-> redo_stack[i][2]]

\* C23: undo and redo transfer ownership and never duplicate: in every
\* reachable state no stroke and no shape is both in the active lists and in
\* the redo stack, and none occurs twice in the active lists or twice in the
\* redo stack; an undo with nothing to undo and a redo with an empty redo
\* stack leave the three lists unchanged.
UndoRedoNeverDuplicates ==
    /\ DistinctObjects(strokes \o RedoStrokes)
    /\ DistinctObjects(shapes \o RedoShapes)
    /\ strokes = <<>> => UndoneLists(strokes, shapes, redo_stack) = Lists
    /\ redo_stack = <<>> => RedoneLists(strokes, shapes, redo_stack) = Lists

\* Two strokes were finalized and the second was undone: one pair on each
\* side.
UndoRedoWitness ==
    /\ Len(strokes) = 1
    /\ Len(shapes) = 1
    /\ Len(redo_stack) = 1
    /\ strokes[1].id = 1
    /\ redo_stack[1][1].id = 2
    /\ redo_stack[1][2].id = 2

\* Every stroke that was finalized: on the canvas or on the redo stack.
FinalizedStrokes == strokes \o RedoStrokes

\* The data of a stroke that the claim calls read-only.
StrokeData(s) ==
    <<s.points, s.processed_points, s.simplified_points, s.is_closed,
      s.detected_shape_type>>

\* b has the points of a, or those and one more at the end.
AppendedOnly(a, b) == b = a \/ (b # <<>> /\ Front(b) = a)

\* C24: a finalized stroke is read-only: from the step that appends it to
\* the finalized list on, its raw, processed and simplified points, its
\* is_closed and its shape type are the same after every later event, while
\* it is on the canvas or on the redo stack; before that its raw points only
\* grow at the end, and the stroke is finalized with the raw points it had.
FinalizedStrokeReadOnly ==
    [][LET before == FinalizedStrokes
           after == FinalizedStrokes'
       IN /\ \A i \in 1..Len(before) : \A j \in 1..Len(after) :
                 after[j].id = before[i].id
                     => StrokeData(after[j]) = StrokeData(before[i])
          /\ current_stroke # None =>
                 /\ (current_stroke' # None /\ current_stroke'[1].id = current_stroke[1].id)
                        => AppendedOnly(current_stroke[1].points, current_stroke'[1].points)
                 /\ \A j \in 1..Len(after) :
                        after[j].id = current_stroke[1].id
                            => after[j].points = current_stroke[1].points
      ]_vars

\* Stroke 1, a line, was finalized; its shape was dragged, stroke 2 was
\* drawn and undone, and the tolerance is no longer the one of the start.
FinalizedReadOnlyWitness ==
    /\ epsilon_value # DefaultEpsilon
    /\ Len(strokes) = 1
    /\ strokes[1].id = 1
    /\ strokes[1].detected_shape_type = "line"
    /\ shapes[1].p0 # strokes[1].processed_points[1]
    /\ Len(redo_stack) = 1
    /\ redo_stack[1][1].id = 2
    /\ Len(redo_stack[1][1].points) = 2

----------------------------------------------------------------------------
(* Driver of the classification followed by the construction of the shape, *)
(* as the pointer-up handler chains them (main.py 345-362), with the       *)
(* colour and the width of the start.                                      *)

CreateClassified ==
    /\ pc = "classified"
    /\ pc' = "built"
    /\ shape_obj' = create_shape_from_classification(
                        shape_type, PixelInfo(shape_info), simplified, processed,
                        is_closed, stroke_color, stroke_width)
    /\ UNCHANGED <<shape_before, delta, pos, hit>>
    /\ UNCHANGED <<points, rdpVars, preVars, fitVars, appVars>>

NextBuild ==
    \/ Classify
    \/ CreateClassified

SpecBuild == InitFit /\ [][NextBuild]_vars

\* The x and the y coordinates of a list of vertices.
Xs(vertices) == {vertices[i][1] : i \in 1..Len(vertices)}
Ys(vertices) == {vertices[i][2] : i \in 1..Len(vertices)}

\* C25: whenever classify_shape returns a shape type other than "polyline",
\* shape_info has an entry for that type with the parameters of the shape,
\* and create_shape_from_classification returns the variant of that type,
\* never a polyline: for a line, the Line from the first to the last
\* processed point; for a circle, the Circle of the fitted centre and
\* radius; for a rect, the axis-aligned Rect that is the bounding box of the
\* four vertices, of width and height >= 0.
ShapeMatchesClassification ==
    (pc = "built" /\ shape_type # "polyline") =>
        /\ shape_type \in DOMAIN shape_info
        /\ shape_obj.kind = shape_type
        /\ shape_type = "line" =>
              /\ {"p0", "p1"} \subseteq DOMAIN shape_info["line"]
              /\ shape_obj.p0 = processed[1]
              /\ shape_obj.p1 = processed[Len(processed)]
        /\ shape_type = "circle" =>
              /\ {"center", "radius"} \subseteq DOMAIN shape_info["circle"]
              /\ <<shape_obj.cx, shape_obj.cy>> = PixelCircle(shape_info["circle"]).center
              /\ shape_obj.radius = PixelCircle(shape_info["circle"]).radius
              /\ shape_obj.radius > 0
        /\ shape_type = "rect" =>
              /\ "vertices" \in DOMAIN shape_info["rect"]
              /\ Len(shape_info["rect"].vertices) = 4
              /\ shape_obj.x = SetMin(Xs(shape_info["rect"].vertices))
              /\ shape_obj.y = SetMin(Ys(shape_info["rect"].vertices))
              /\ shape_obj.x + shape_obj.w = SetMax(Xs(shape_info["rect"].vertices))
              /\ shape_obj.y + shape_obj.h = SetMax(Ys(shape_info["rect"].vertices))
              /\ shape_obj.w >= 0
              /\ shape_obj.h >= 0

\* A rect was built from a quadrilateral that is not axis-aligned, while a
\* line candidate was in shape_info too.
ShapeMatchesRectWitness ==
    /\ pc = "built"
    /\ shape_type = "rect"
    /\ shape_obj.kind = "rect"
    /\ "line" \in DOMAIN shape_info
    /\ shape_info["rect"].vertices[3][1] # shape_info["rect"].vertices[2][1]

----------------------------------------------------------------------------
(* Properties of the selection and of undo and redo *)

\* C26: in every reachable state the selected shape, when there is one, is
\* a member of the active shapes list, so that a drag in selection mode
\* moves only a shape that is on the canvas, never one removed by undo or
\* clear.
SelectedShapeIsActive ==
    selected_shape # 0 => \E i \in 1..Len(shapes) : shapes[i].id = selected_shape

\* C27: from any state with at least one finalized stroke, an undo
\* immediately followed by a redo restores the finalized strokes, the shapes
\* and the redo stack to their contents and order before the undo; from any
\* state with a non-empty redo stack, a redo immediately followed by an undo
\* does the same.
UndoRedoRoundTrip ==
    LET undone == UndoneLists(strokes, shapes, redo_stack)
        redone == RedoneLists(strokes, shapes, redo_stack)
    IN /\ Len(strokes) >= 1 =>
              /\ undone # Lists
              /\ RedoneLists(undone.strokes, undone.shapes, undone.redo_stack) = Lists
       /\ Len(redo_stack) >= 1 =>
              /\ redone # Lists
              /\ UndoneLists(redone.strokes, redone.shapes, redone.redo_stack) = Lists

\* Both round trips start here: a line on the canvas whose shape was
\* dragged, and a pair on the redo stack.
UndoRedoRoundTripWitness ==
    /\ Len(strokes) >= 1
    /\ Len(redo_stack) >= 1
    /\ shapes[1].kind = "line"
    /\ shapes[1].p0 # strokes[1].processed_points[1]

====
